---- MODULE Spec2Model ----
(***************************************************************************)
(* A model of the relayer's replicated task queue, its network order book, *)
(* the gossip server's order handlers and the heartbeat protocol.          *)
(*                                                                         *)
(* The proposers of state/src/interface/task_queue.rs build a             *)
(* StateTransition and hand it to send_proposal; the proposal is applied   *)
(* by the task-queue applicator.  The applicator's file is not among the   *)
(* sources, so its handlers (the Apply... operators) follow section 4.1 of *)
(* the specification.  A proposal and its application are one step: the    *)
(* waiter a proposer returns resolves once the transition is applied.      *)
(***************************************************************************)
EXTENDS Integers, Sequences, FiniteSets, TLC

\* ------------------------------------------------------------------ bounds
MaxTasks == 2
MaxPreempts == 1
MaxStep == 1
MaxOrders == 2
MaxNullifiers == 2
MaxTicks == 3
MaxLog == 3
MaxWallets == 2
MaxSent == 2
MaxStaleness == 2
MaxBytes == 64
MaxEvents == 3
MERKLE_HEIGHT == 3

\* Two task queues (the two wallets of a match) and two cluster nodes (the local
\* peer and one other replica)
Keys == {1, 2}
Nodes == {1, 2}
TaskIds == 1..(MaxTasks + MaxPreempts)
PreemptIds == (MaxTasks + 1)..(MaxTasks + MaxPreempts)
Steps == 0..MaxStep

NoTask == 0
NoPeer == 0

VARIABLES
  queues,      \* task_queues table: key -> sequence of QueuedTask
  paused,      \* key -> whether the queue is paused
  history,     \* task_history table: key -> sequence of HistoricalTask, newest first
  assigned,    \* task id -> the node executing the task, NoPeer when none
  nextId,      \* the next task identifier TaskIdentifier::new_v4 hands out
  alive,       \* node -> whether the node is up
  fiber,       \* task id -> where the executor's fiber for the task stands
  submitted,   \* task id -> how many times the task's transaction was broadcast
  failover,    \* the tasks a new executor took over in committed state
  orders,      \* ORDERS_TABLE "order:<id>" keys: order id -> NetworkOrder, NoOrder when absent
  nullifier_sets, \* ORDERS_TABLE "nullifier:<n>" keys: nullifier -> sequence of order ids
  priorities,  \* PRIORITIES_TABLE: order id -> OrderPriority, NoPriority when absent
  bus,         \* the system bus messages the last operation published, in order
  now,         \* the clock, in seconds
  known_peers, \* the peer index: peer id -> last_heartbeat, None when not indexed
  expiry_cache, \* the peer expiry cache
  jobs,        \* the ExecuteHeartbeat jobs in the job queue
  hb,          \* the worker running send_heartbeat: where it stands, its peer, its clock read
  mg,          \* the workers running merge_peer_index: where each stands, its peers_to_add
  network_channel, \* the NewAddr messages the last merge_peer_index loop sent, in order
  expired,     \* peer id -> the time of the peer's last expiry, None when never expired
  log,         \* the replication log: the committed state transitions, in commit order
  follower,    \* a second replica: how much of the log it applied, and its task-queue state
  managed_wallets, \* the wallet index: wallet id -> the wallet's replicas, None when not managed
  mw,          \* the worker running merge_wallets: where it stands, what it merges
  cluster_members, \* the local cluster's metadata: the authenticated members
  mc,          \* the worker running merge_cluster_metadata: where it stands, whom it asks
  timer,       \* the heartbeat timer's loop: its peer_index, and a record of its current pass
  swarm,       \* the network manager: what it handed to the swarm, oldest first
  network_executor,    \* the network manager's executor loop: where it is and the events it handled
  proof_staleness, \* Wallet::proof_staleness of the wallet behind each task queue
  refresh_tasks,   \* the ids of the tasks whose descriptor is RefreshWallet
  conv,            \* a value under conversion: which conversion, its input, each stage's output
  witness_exchange, \* the gossip server's peer infos and stored witnesses, the witness messages sent
  wallet_state     \* one Wallet: its plaintext, blinder and the two share vectors

tqvars == <<queues, paused, history, assigned, nextId>>
drvvars == <<alive, fiber, submitted, failover>>
obvars == <<orders, nullifier_sets, priorities, bus>>
hbvars == <<now, known_peers, expiry_cache, jobs, hb, mg, network_channel, expired>>
repvars == <<log, follower>>
clvars == <<managed_wallets, mw, cluster_members, mc>>
tmvars == <<timer>>
nmvars == <<swarm, network_executor>>
wlvars == <<proof_staleness, refresh_tasks>>
wtvars == <<wallet_state>>
cvvars == <<conv>>
vwvars == <<witness_exchange>>
vars == <<tqvars, drvvars, obvars, hbvars, repvars, clvars, tmvars, nmvars, wlvars, wtvars, cvvars, vwvars>>

\* ------------------------------------------------------- QueuedTaskState
Queued == [tag |-> "Queued", step |-> 0, committed |-> FALSE]
Preemptive == [tag |-> "Preemptive", step |-> 0, committed |-> FALSE]
Completed == [tag |-> "Completed", step |-> 0, committed |-> FALSE]
Failed == [tag |-> "Failed", step |-> 0, committed |-> FALSE]
Running(s, c) == [tag |-> "Running", step |-> s, committed |-> c]

RunningStates == {Running(s, c) : s \in Steps, c \in BOOLEAN}

is_committed(state) == state.tag = "Running" /\ state.committed

IsRunning(task) == task.state.tag = "Running"

\* A QueuedTask; created_at is carried along unread and is left out.
QueuedTask(id, state, key) == [id |-> id, state |-> state, key |-> key]

\* ------------------------------------------------- the store's read helpers
TQ == [queues |-> queues, paused |-> paused, history |-> history, assigned |-> assigned]

is_queue_paused(S, key) == S.paused[key]

get_queued_tasks(S, key) == S.queues[key]

IdsIn(q) == {q[i].id : i \in 1..Len(q)}

\* The keys of the queues that hold the task (a preemptive task sits in several).
get_queue_keys_for_task(S, task_id) == {k \in Keys : task_id \in IdsIn(S.queues[k])}

\* The head of the queue when it is Running, else NoTask
get_current_running_task(S, key) ==
  IF S.queues[key] # <<>> /\ Head(S.queues[key]).state.tag = "Running"
  THEN Head(S.queues[key])
  ELSE QueuedTask(NoTask, Queued, key)

\* interface/task_queue.rs, current_committed_task: running.filter(is_committed).map(id)
current_committed_task_nofilter(S, key) == get_current_running_task(S, key).id

current_committed_task(S, key) ==
  LET running == get_current_running_task(S, key)
  IN IF running.id # NoTask /\ is_committed(running.state) THEN running.id ELSE NoTask

\* ------------------------------------------------------ applicator handlers
Ok(S) == [ok |-> TRUE, st |-> S]
Err(S) == [ok |-> FALSE, st |-> S]

SetHeadState(q, state) == <<[Head(q) EXCEPT !.state = state]>> \o Tail(q)

\* Start the head of `key`: Running at the initial step, uncommitted, run by `executor`
StartHead(S, key, executor) ==
  LET q == S.queues[key]
  IN [S EXCEPT !.queues[key] = SetHeadState(q, Running(0, FALSE)),
               !.assigned[Head(q).id] = executor]

\* AppendTask that starts the task in every empty queue, paused or not
ApplyAppendTaskIgnorePause(S, task, executor) ==
  LET key == task.key
      S1 == [S EXCEPT !.queues[key] = Append(@, task)]
  IN IF S.queues[key] = <<>> THEN Ok(StartHead(S1, key, executor)) ELSE Ok(S1)

\* AppendTask{task, executor}: push to the tail; an idle queue starts the task
ApplyAppendTask(S, task, executor) ==
  LET key == task.key
      previously_empty == S.queues[key] = <<>>
      S1 == [S EXCEPT !.queues[key] = Append(@, task)]
  IN IF previously_empty /\ ~is_queue_paused(S, key)
     THEN Ok(StartHead(S1, key, executor))
     ELSE Ok(S1)

HistoricalTask(task, state) == [id |-> task.id, state |-> state]

\* PopTask that records every popped task as Completed
ApplyPopTaskAlwaysCompleted(S, task_id, success, proposer) ==
  LET ks == {k \in Keys : S.queues[k] # <<>> /\ Head(S.queues[k]).id = task_id}
  IN IF ks = {} THEN Err(S)
     ELSE LET key == CHOOSE k \in ks : \A j \in ks : k <= j
              q == S.queues[key]
              S1 == [S EXCEPT !.queues[key] = Tail(q),
                              !.history[key] = <<HistoricalTask(Head(q), Completed)>> \o @,
                              !.assigned[task_id] =
                                 IF \E k \in Keys \ {key} : task_id \in IdsIn(S.queues[k])
                                 THEN @ ELSE NoPeer]
          IN IF Tail(q) # <<>> /\ ~is_queue_paused(S, key)
             THEN Ok(StartHead(S1, key, proposer))
             ELSE Ok(S1)

\* PopTask{task_id, success}: pop the head, record the outcome, promote the next task
ApplyPopTask(S, task_id, success, proposer) ==
  LET ks == {k \in Keys : S.queues[k] # <<>> /\ Head(S.queues[k]).id = task_id}
  IN IF ks = {} THEN Err(S)
     ELSE LET key == CHOOSE k \in ks : \A j \in ks : k <= j
              q == S.queues[key]
              outcome == IF success THEN Completed ELSE Failed
              S1 == [S EXCEPT !.queues[key] = Tail(q),
                              !.history[key] = <<HistoricalTask(Head(q), outcome)>> \o @,
                              !.assigned[task_id] =
                                 IF \E k \in Keys \ {key} : task_id \in IdsIn(S.queues[k])
                                 THEN @ ELSE NoPeer]
          IN IF Tail(q) # <<>> /\ ~is_queue_paused(S, key)
             THEN Ok(StartHead(S1, key, proposer))
             ELSE Ok(S1)

\* TransitionTask{task_id, state}: only the head of a queue moves, its step never
\* decreases and a committed task stays committed
TransitionAllowed(old, new) ==
  /\ new.tag = "Running"
  /\ old.tag = "Running" => new.step >= old.step
  /\ is_committed(old) => is_committed(new)

\* TransitionTask that checks only that the task heads a queue
ApplyTransitionTaskUnchecked(S, task_id, state) ==
  LET ks == {k \in Keys : S.queues[k] # <<>> /\ Head(S.queues[k]).id = task_id}
  IN IF ks = {}
     THEN Err(S)
     ELSE Ok([S EXCEPT !.queues = [k \in Keys |->
                 IF k \in ks THEN SetHeadState(S.queues[k], state) ELSE S.queues[k]]])

ApplyTransitionTask(S, task_id, state) ==
  LET ks == {k \in Keys : S.queues[k] # <<>> /\ Head(S.queues[k]).id = task_id}
  IN IF ks = {} \/ \E k \in ks : ~TransitionAllowed(Head(S.queues[k]).state, state)
     THEN Err(S)
     ELSE Ok([S EXCEPT !.queues = [k \in Keys |->
                 IF k \in ks THEN SetHeadState(S.queues[k], state) ELSE S.queues[k]]])

\* PreemptTaskQueues{keys, task, executor}: one write transaction over the keys in
\* order; a committed running task aborts it, and an aborted transaction writes nothing
RECURSIVE PreemptLoop(_, _, _, _)
PreemptLoop(S, keys, task, executor) ==
  IF keys = <<>> THEN Ok(S)
  ELSE LET key == Head(keys)
           running == get_current_running_task(S, key)
       IN IF running.id # NoTask /\ is_committed(running.state)
          THEN Err(S)
          ELSE LET q == S.queues[key]
                   requeued == IF running.id # NoTask THEN SetHeadState(q, Queued) ELSE q
                   S1 == [S EXCEPT !.queues[key] = <<QueuedTask(task.id, task.state, key)>> \o requeued,
                                   !.paused[key] = TRUE,
                                   !.assigned = [t \in DOMAIN S.assigned |->
                                       IF t = task.id THEN executor
                                       ELSE IF t = running.id THEN NoPeer
                                       ELSE S.assigned[t]]]
               IN PreemptLoop(S1, Tail(keys), task, executor)

ApplyPreemptTaskQueues(S, keys, task, executor) ==
  LET r == PreemptLoop(S, keys, task, executor)
  IN IF r.ok THEN r ELSE Err(S)

\* ResumeTaskQueues{keys, success}: unpause, remove the preempting task from the
\* front and start the task behind it
RECURSIVE ResumeLoop(_, _, _, _)
ResumeLoop(S, keys, success, proposer) ==
  IF keys = <<>> THEN S
  ELSE LET key == Head(keys)
           q == S.queues[key]
           S1 == IF ~is_queue_paused(S, key) \/ q = <<>>
                 THEN [S EXCEPT !.paused[key] = FALSE]
                 ELSE [S EXCEPT !.paused[key] = FALSE,
                                !.queues[key] = Tail(q),
                                !.assigned[Head(q).id] =
                                   IF \E k \in Keys \ {key} : Head(q).id \in IdsIn(S.queues[k])
                                   THEN @ ELSE NoPeer]
           S2 == IF S1.queues[key] # <<>> /\ is_queue_paused(S, key)
                 THEN StartHead(S1, key, proposer)
                 ELSE S1
       IN ResumeLoop(S2, Tail(keys), success, proposer)

\* ResumeTaskQueues that unpauses and leaves the preempting task where it is
ApplyResumeTaskQueuesKeepTask(S, keys, success, proposer) ==
  Ok([S EXCEPT !.paused = [k \in Keys |->
        IF \E i \in 1..Len(keys) : keys[i] = k THEN FALSE ELSE S.paused[k]]])

ApplyResumeTaskQueues(S, keys, success, proposer) == Ok(ResumeLoop(S, keys, success, proposer))

\* ReassignTasks that hands every executed task to `to`
ApplyReassignTasksAll(S, from, to) ==
  Ok([S EXCEPT !.assigned = [t \in DOMAIN S.assigned |->
                                IF S.assigned[t] # NoPeer THEN to ELSE S.assigned[t]]])

\* ReassignTasks{from, to}: the tasks `from` executes are executed by `to`
ApplyReassignTasks(S, from, to) ==
  Ok([S EXCEPT !.assigned = [t \in DOMAIN S.assigned |->
                                IF S.assigned[t] = from THEN to ELSE S.assigned[t]]])

\* ClearTaskQueue{queue}: drop every task of the queue
ApplyClearTaskQueue(S, key) ==
  Ok([S EXCEPT !.queues[key] = <<>>,
               !.assigned = [t \in DOMAIN S.assigned |->
                   IF t \in IdsIn(S.queues[key])
                      /\ ~\E k \in Keys \ {key} : t \in IdsIn(S.queues[k])
                   THEN NoPeer ELSE S.assigned[t]]])

\* send_proposal: the transition is committed to the log and applied
Commit(r) ==
  /\ queues' = r.st.queues
  /\ paused' = r.st.paused
  /\ history' = r.st.history
  /\ assigned' = r.st.assigned

\* ---------------------------------------------- interface/task_queue.rs
\* Iterator::take(n): the first n elements, all of them when there are fewer
Take(s, n) == IF n >= Len(s) THEN s ELSE SubSeq(s, 1, n)

\* usize::saturating_sub
saturating_sub(a, b) == IF a >= b THEN a - b ELSE 0

\* The sets a caller may be told about: which task ids carry a descriptor that has a
\* historical form (HistoricalTask::from_queued_task returns an Option)
DescribableSets == SUBSET TaskIds

from_queued_task(key, t, describable) ==
  IF t.id \in describable THEN <<HistoricalTask(t, t.state)>> ELSE <<>>

\* filter_map over a sequence of queued tasks
RECURSIVE FilterMapQueued(_, _, _)
FilterMapQueued(key, tasks, describable) ==
  IF tasks = <<>> THEN <<>>
  ELSE from_queued_task(key, Head(tasks), describable)
         \o FilterMapQueued(key, Tail(tasks), describable)

\* tx.get_truncated_task_history: the newest `remaining` entries of the history
get_truncated_task_history(S, remaining, key) == Take(S.history[key], remaining)

\* get_task_history with the history filled up to len whatever the queue holds
get_task_history_nosub(S, len, key, describable) ==
  LET running == get_queued_tasks(S, key)
      historical == get_truncated_task_history(S, len, key)
  IN Take(FilterMapQueued(key, running, describable) \o historical, len)

\* get_task_history: the queued tasks, then the history, truncated to len
get_task_history(S, len, key, describable) ==
  LET running == get_queued_tasks(S, key)
      remaining == saturating_sub(len, Len(running))
      historical == get_truncated_task_history(S, remaining, key)
  IN Take(FilterMapQueued(key, running, describable) \o historical, len)

\* append_task: a fresh id, state Queued, the local peer as executor
NewTaskStateMutant == Running(0, FALSE)

NewTaskState == Queued

append_task(self_id, key) ==
  /\ nextId <= MaxTasks
  /\ nextId' = nextId + 1
  /\ Commit(ApplyAppendTask(TQ, QueuedTask(nextId, NewTaskState, key), self_id))

pop_task(self_id, task_id, success) ==
  /\ UNCHANGED nextId
  /\ Commit(ApplyPopTask(TQ, task_id, success, self_id))

transition_task(task_id, state) ==
  /\ UNCHANGED nextId
  /\ Commit(ApplyTransitionTask(TQ, task_id, state))

clear_task_queue(key) ==
  /\ UNCHANGED nextId
  /\ Commit(ApplyClearTaskQueue(TQ, key))

\* pause_multiple_task_queues: the task is built in state Preemptive
PreemptTaskStateMutant == Queued

PreemptTaskState == Preemptive

\* TaskIdentifier::new_v4 for a preemptive task: an identifier no queue and no
\* history holds (one that left the state altogether is as good as a fresh one)
FreePreemptIds ==
  {t \in PreemptIds : \A k \in Keys :
     /\ t \notin IdsIn(queues[k])
     /\ \A i \in 1..Len(history[k]) : history[k][i].id # t}

NewPreemptId == CHOOSE t \in FreePreemptIds : \A u \in FreePreemptIds : t <= u

pause_multiple_task_queues(self_id, keys) ==
  /\ FreePreemptIds # {}
  /\ UNCHANGED nextId
  /\ Commit(ApplyPreemptTaskQueues(TQ, keys, QueuedTask(NewPreemptId, PreemptTaskState, Head(keys)), self_id))

resume_multiple_task_queues(self_id, keys, success) ==
  /\ UNCHANGED nextId
  /\ Commit(ApplyResumeTaskQueues(TQ, keys, success, self_id))

\* reassign_tasks: from the failed peer to the local peer
ReassignProposalMutant(local_peer, failed_peer) == [from |-> local_peer, to |-> failed_peer]

ReassignProposal(local_peer, failed_peer) == [from |-> failed_peer, to |-> local_peer]

reassign_tasks(self_id, failed_peer) ==
  LET p == ReassignProposal(self_id, failed_peer)
  IN /\ UNCHANGED nextId
     /\ Commit(ApplyReassignTasks(TQ, p.from, p.to))

\* Vec<TaskQueueKey> arguments: the non-empty sequences of distinct keys
KeySeqs == {<<k>> : k \in Keys} \cup {x \in Keys \X Keys : x[1] # x[2]}

TQInit ==
  /\ queues = [k \in Keys |-> <<>>]
  /\ paused = [k \in Keys |-> FALSE]
  /\ history = [k \in Keys |-> <<>>]
  /\ assigned = [t \in TaskIds |-> NoPeer]
  /\ nextId = 1

AppendTask == \E n \in Nodes, k \in Keys : append_task(n, k)
PopTask == \E n \in Nodes, t \in TaskIds, s \in BOOLEAN : pop_task(n, t, s)
TransitionTask == \E t \in TaskIds, st \in RunningStates : transition_task(t, st)
ClearTaskQueue == \E k \in Keys : clear_task_queue(k)
PreemptTaskQueues == \E n \in Nodes, ks \in KeySeqs : pause_multiple_task_queues(n, ks)
ResumeTaskQueues == \E n \in Nodes, ks \in KeySeqs, s \in BOOLEAN : resume_multiple_task_queues(n, ks, s)
ReassignTasks == \E n \in Nodes, f \in Nodes : reassign_tasks(n, f)

\* ------------------------------------------------------ the replication log
\* The StateTransition records the proposers build; `proposer` is the origin of
\* the log entry, which the applicator makes the executor of a promoted task
AppendTaskEntry(self_id, key) ==
  [type |-> "AppendTask", task |-> QueuedTask(nextId, NewTaskState, key), executor |-> self_id]

PopTaskEntryFlipped(self_id, task_id, success) ==
  [type |-> "PopTask", task_id |-> task_id, success |-> ~success, proposer |-> self_id]

PopTaskEntry(self_id, task_id, success) ==
  [type |-> "PopTask", task_id |-> task_id, success |-> success, proposer |-> self_id]

TransitionTaskEntry(task_id, state) ==
  [type |-> "TransitionTask", task_id |-> task_id, state |-> state]

ClearTaskQueueEntry(key) == [type |-> "ClearTaskQueue", queue |-> key]

PreemptTaskQueuesEntry(self_id, keys) ==
  [type |-> "PreemptTaskQueues", keys |-> keys,
   task |-> QueuedTask(NewPreemptId, PreemptTaskState, Head(keys)), executor |-> self_id]

ResumeTaskQueuesEntry(self_id, keys, success) ==
  [type |-> "ResumeTaskQueues", keys |-> keys, success |-> success, proposer |-> self_id]

ReassignTasksEntry(self_id, failed_peer) ==
  [type |-> "ReassignTasks", from |-> ReassignProposal(self_id, failed_peer).from,
   to |-> ReassignProposal(self_id, failed_peer).to]

\* The applicator: one handler per transition variant
ApplyTransition(S, e) ==
  CASE e.type = "AppendTask" -> ApplyAppendTask(S, e.task, e.executor)
    [] e.type = "PopTask" -> ApplyPopTask(S, e.task_id, e.success, e.proposer)
    [] e.type = "TransitionTask" -> ApplyTransitionTask(S, e.task_id, e.state)
    [] e.type = "ClearTaskQueue" -> ApplyClearTaskQueue(S, e.queue)
    [] e.type = "PreemptTaskQueues" -> ApplyPreemptTaskQueues(S, e.keys, e.task, e.executor)
    [] e.type = "ResumeTaskQueues" -> ApplyResumeTaskQueues(S, e.keys, e.success, e.proposer)
    [] e.type = "ReassignTasks" -> ApplyReassignTasks(S, e.from, e.to)

\* A transition is committed to the log as the proposing replica applies it; a
\* proposal the applicator rejects or that changes nothing is left out of the log
Replicate(e) ==
  /\ Len(log) < MaxLog
  /\ TQ' # TQ
  /\ log' = Append(log, e)
  /\ UNCHANGED follower

\* The second replica applies the next committed transition
FollowerApply ==
  /\ follower.applied < Len(log)
  /\ follower' = [applied |-> follower.applied + 1,
                  st |-> ApplyTransition(follower.st, log[follower.applied + 1]).st]
  /\ UNCHANGED <<tqvars, log>>

RepInit ==
  /\ log = <<>>
  /\ follower = [applied |-> 0,
                 st |-> [queues |-> [k \in Keys |-> <<>>], paused |-> [k \in Keys |-> FALSE],
                         history |-> [k \in Keys |-> <<>>],
                         assigned |-> [t \in TaskIds |-> NoPeer]]]

DrvInit ==
  /\ alive = [n \in Nodes |-> TRUE]
  /\ fiber = [t \in TaskIds |-> "none"]
  /\ submitted = [t \in TaskIds |-> 0]
  /\ failover = {}

\* ------------------------------------------------------------ task driver
\* The driver of section 4.4: the executor of a queue's running head proposes the
\* step's TransitionTask, broadcasts the transaction, proposes committed = true,
\* awaits finality and pops the task.  A crash loses the executor's fibers; the
\* node a ReassignTasks names starts a fiber from the replicated state.
SubmitStep == 1

IsHeadOf(t, k) == queues[k] # <<>> /\ Head(queues[k]).id = t

DriverStart(n, t) ==
  \E k \in Keys :
    /\ alive[n] /\ assigned[t] = n /\ fiber[t] = "none"
    /\ IsHeadOf(t, k) /\ IsRunning(Head(queues[k]))
    /\ IF current_committed_task(TQ, k) = t
       THEN /\ fiber' = [fiber EXCEPT ![t] = "finality"]
            /\ failover' = failover \cup {t}
            /\ UNCHANGED tqvars
       ELSE /\ fiber' = [fiber EXCEPT ![t] = "submit"]
            /\ UNCHANGED failover
            /\ IF Head(queues[k]).state.step < SubmitStep
               THEN transition_task(t, Running(SubmitStep, FALSE))
               ELSE UNCHANGED tqvars
    /\ UNCHANGED <<alive, submitted>>

DriverBroadcast(n, t) ==
  /\ alive[n] /\ assigned[t] = n /\ fiber[t] = "submit"
  /\ submitted' = [submitted EXCEPT ![t] = @ + 1]
  /\ fiber' = [fiber EXCEPT ![t] = "sent"]
  /\ UNCHANGED <<tqvars, alive, failover>>

DriverCommit(n, t) ==
  /\ alive[n] /\ assigned[t] = n /\ fiber[t] = "sent"
  /\ transition_task(t, Running(SubmitStep, TRUE))
  /\ fiber' = [fiber EXCEPT ![t] = "finality"]
  /\ UNCHANGED <<alive, submitted, failover>>

DriverFinish(n, t) ==
  /\ alive[n] /\ assigned[t] = n /\ fiber[t] = "finality"
  /\ pop_task(n, t, TRUE)
  /\ fiber' = [fiber EXCEPT ![t] = "none"]
  /\ UNCHANGED <<alive, submitted, failover>>

Crash(n) ==
  /\ alive[n] /\ \E m \in Nodes \ {n} : alive[m]
  /\ alive' = [alive EXCEPT ![n] = FALSE]
  /\ fiber' = [t \in TaskIds |-> IF assigned[t] = n THEN "none" ELSE fiber[t]]
  /\ UNCHANGED <<tqvars, submitted, failover>>

Recover(n, failed) ==
  /\ alive[n] /\ ~alive[failed]
  /\ reassign_tasks(n, failed)
  /\ UNCHANGED drvvars

\* ------------------------------------------------------ network order book
\* statev2 applicator, order_book.rs.  Each interface method runs its helpers
\* against a write transaction `tx` (the three tables) and commits the result.
OrderIds == 1..MaxOrders
Nullifiers == 1..MaxNullifiers

\* Option<T>
None == <<>>
Some(x) == <<x>>
Unwrap(o) == o[1]

\* OrderValidityProofBundle: the statement field the order book reads
ProofBundle(n) == [original_shares_nullifier |-> n]
ProofBundles == {ProofBundle(n) : n \in Nullifiers}

\* NetworkOrder (the witness bundle and the timestamp are left out)
NetworkOrder(id, nullifier, state, proofs, local) ==
  [id |-> id, public_share_nullifier |-> nullifier, state |-> state,
   validity_proofs |-> proofs, validity_proof_witnesses |-> None, local |-> local]

\* NetworkOrder::new: a Received order without proofs
NewNetworkOrder(id, nullifier, local) == NetworkOrder(id, nullifier, "Received", None, local)

CLUSTER_DEFAULT_PRIORITY == 1
ORDER_DEFAULT_PRIORITY == 1

OrderPriority(cluster_priority, order_priority) ==
  [cluster_priority |-> cluster_priority, order_priority |-> order_priority]

DB == [orders |-> orders, nullifier_sets |-> nullifier_sets, priorities |-> priorities]

read_order_info(tx, order_id) == tx.orders[order_id]

read_order_info_unchecked(tx, order_id) == Unwrap(read_order_info(tx, order_id))

write_order_info(tx, order) == [tx EXCEPT !.orders[order.id] = Some(order)]

\* no cluster priority is ever written to the table: unwrap_or(CLUSTER_DEFAULT_PRIORITY)
get_cluster_priority_with_tx(tx) == CLUSTER_DEFAULT_PRIORITY

write_order_priority_with_tx(tx, order) ==
  [tx EXCEPT !.priorities[order.id] =
     Some(OrderPriority(get_cluster_priority_with_tx(tx), ORDER_DEFAULT_PRIORITY))]

read_nullifier_set(tx, nullifier) == tx.nullifier_sets[nullifier]

write_nullifier_set(tx, nullifier, set) == [tx EXCEPT !.nullifier_sets[nullifier] = set]

Contains(set, order_id) == \E i \in 1..Len(set) : set[i] = order_id

append_to_nullifier_set(tx, nullifier, order_id) ==
  LET nullifier_set == read_nullifier_set(tx, nullifier)
  IN IF ~Contains(nullifier_set, order_id)
     THEN write_nullifier_set(tx, nullifier, Append(nullifier_set, order_id))
     ELSE tx

update_order_nullifier_noappend(tx, order_id, old_nullifier, new_nullifier) ==
  write_nullifier_set(tx, old_nullifier,
    SelectSeq(read_nullifier_set(tx, old_nullifier), LAMBDA id : id # order_id))

update_order_nullifier(tx, order_id, old_nullifier, new_nullifier) ==
  LET old_set == read_nullifier_set(tx, old_nullifier)
      updated_old_set == SelectSeq(old_set, LAMBDA id : id # order_id)
      tx1 == write_nullifier_set(tx, old_nullifier, updated_old_set)
  IN append_to_nullifier_set(tx1, new_nullifier, order_id)

add_order_with_tx(tx, order) ==
  LET info == read_order_info(tx, order.id)
      tx1 == IF info # None
             THEN update_order_nullifier(tx, order.id, Unwrap(info).public_share_nullifier,
                                         order.public_share_nullifier)
             ELSE append_to_nullifier_set(tx, order.public_share_nullifier, order.id)
  IN write_order_info(tx1, order)

\* Result<()> of a helper: the transaction it leaves and the bus messages it published
TxOk(tx, msgs) == [ok |-> TRUE, tx |-> tx, msgs |-> msgs]
TxErr(tx, msgs) == [ok |-> FALSE, tx |-> tx, msgs |-> msgs]

\* attach_validity_proof_with_tx without the re-indexing under the proof's nullifier
attach_validity_proof_with_tx_noindex(tx, order_id, proof) ==
  IF read_order_info(tx, order_id) = None THEN TxErr(tx, <<>>)
  ELSE LET order_info == read_order_info_unchecked(tx, order_id)
       IN TxOk(write_order_info(tx,
                 [order_info EXCEPT !.state = "Verified",
                                    !.public_share_nullifier = proof.original_shares_nullifier,
                                    !.validity_proofs = Some(proof)]), <<>>)

attach_validity_proof_with_tx(tx, order_id, proof) ==
  IF read_order_info(tx, order_id) = None THEN TxErr(tx, <<>>)
  ELSE LET order_info == read_order_info_unchecked(tx, order_id)
           prev_nullifier == order_info.public_share_nullifier
           new_nullifier == proof.original_shares_nullifier
           tx1 == IF prev_nullifier # new_nullifier
                  THEN update_order_nullifier(tx, order_id, prev_nullifier, new_nullifier)
                  ELSE tx
       IN TxOk(write_order_info(tx1,
                 [order_info EXCEPT !.state = "Verified",
                                    !.public_share_nullifier = proof.original_shares_nullifier,
                                    !.validity_proofs = Some(proof)]), <<>>)

NewOrderMsg(order) == [type |-> "NewOrder", order |-> order]
OrderStateChangeMsg(order) == [type |-> "OrderStateChange", order |-> order]

CancelledOrderKeepState(order) == [order EXCEPT !.validity_proofs = None]

CancelledOrder(order) ==
  [order EXCEPT !.state = "Cancelled", !.validity_proof_witnesses = None,
                !.validity_proofs = None]

cancel_order_with_tx(tx, order_id) ==
  IF read_order_info(tx, order_id) = None THEN TxErr(tx, <<>>)
  ELSE LET order == CancelledOrder(read_order_info_unchecked(tx, order_id))
       IN TxOk(write_order_info(tx, order), <<OrderStateChangeMsg(order)>>)

RECURSIVE CancelLoop(_, _, _)
CancelLoop(tx, set, msgs) ==
  IF set = <<>> THEN TxOk(tx, msgs)
  ELSE LET r == cancel_order_with_tx(tx, Head(set))
       IN IF r.ok THEN CancelLoop(r.tx, Tail(set), msgs \o r.msgs)
          ELSE TxErr(r.tx, msgs)

\* The order ids indexed under the nullifiers up to n
RECURSIVE IndexedUpTo(_, _)
IndexedUpTo(tx, n) ==
  IF n = 0 THEN <<>> ELSE IndexedUpTo(tx, n - 1) \o read_nullifier_set(tx, n)

\* nullify_orders_with_tx that cancels the orders of every nullifier
nullify_orders_with_tx_every(tx, nullifier) ==
  CancelLoop(tx, IndexedUpTo(tx, MaxNullifiers), <<>>)

nullify_orders_with_tx(tx, nullifier) == CancelLoop(tx, read_nullifier_set(tx, nullifier), <<>>)

\* tx.commit()
CommitTx(tx) ==
  /\ orders' = tx.orders
  /\ nullifier_sets' = tx.nullifier_sets
  /\ priorities' = tx.priorities

\* tx.commit() that returns a storage error: the tables stay as they were
AbortTx == UNCHANGED <<orders, nullifier_sets, priorities>>

\* The handlers with the outcome of tx.commit() as an input.  `?` returns the
\* error before anything that follows the commit
new_order_tx(order, commits) ==
  LET tx == add_order_with_tx(write_order_priority_with_tx(DB, order), order)
  IN IF commits
     THEN /\ CommitTx(tx)
          /\ bus' = <<NewOrderMsg(order)>>
     ELSE /\ AbortTx
          /\ bus' = <<>>

add_order_validity_proof_tx(order_id, proof, commits) ==
  LET r == attach_validity_proof_with_tx(DB, order_id, proof)
  IN IF r.ok /\ commits
     THEN /\ CommitTx(r.tx)
          /\ bus' = <<OrderStateChangeMsg(read_order_info_unchecked(r.tx, order_id))>>
     ELSE /\ AbortTx
          /\ bus' = <<>>

\* cancel_order_with_tx publishes inside the transaction: the messages are on the
\* bus whether or not the handler goes on to commit
nullify_orders_tx(nullifier, commits) ==
  LET r == nullify_orders_with_tx(DB, nullifier)
  IN /\ IF r.ok /\ commits THEN CommitTx(r.tx) ELSE AbortTx
     /\ bus' = r.msgs

\* The handlers when the storage commits
new_order(order) == new_order_tx(order, TRUE)

add_order_validity_proof(order_id, proof) == add_order_validity_proof_tx(order_id, proof, TRUE)

nullify_orders(nullifier) == nullify_orders_tx(nullifier, TRUE)

OBInit ==
  /\ orders = [id \in OrderIds |-> None]
  /\ nullifier_sets = [n \in Nullifiers |-> <<>>]
  /\ priorities = [id \in OrderIds |-> None]
  /\ bus = <<>>

NewOrder ==
  \E id \in OrderIds, n \in Nullifiers, local \in BOOLEAN : new_order(NewNetworkOrder(id, n, local))
AddOrderValidityProof ==
  \E id \in OrderIds, proof \in ProofBundles : add_order_validity_proof(id, proof)
NullifyOrders == \E n \in Nullifiers : nullify_orders(n)

\* ------------------------------------------------- gossip order handlers
\* gossip-server orderbook.rs.  global_state.add_order and
\* global_state.add_order_validity_proofs index the order as the applicator's
\* add_order_with_tx and attach_validity_proof_with_tx do.
LocalCluster == "local"
Clusters == {LocalCluster, "remote"}

\* What the verifier and the chain client answer for a proof bundle
Answers ==
  [link : BOOLEAN, nullifier_unused : BOOLEAN, merkle_root_valid : BOOLEAN,
   reblind : BOOLEAN, commitments : BOOLEAN]

\* the Merkle-root answer only reaches the log: the error return is commented out
verify_validity_proofs(a) ==
  IF ~a.link THEN FALSE
  ELSE IF ~a.nullifier_unused THEN FALSE
  ELSE IF ~a.reblind THEN FALSE
  ELSE a.commitments

GlobalAddOrder(tx, order) == add_order_with_tx(tx, order)

\* handle_new_order without the nullifier check
handle_new_order_nocheck(order_id, nullifier, cluster, nullifier_unused) ==
  LET is_local == cluster = LocalCluster
  IN /\ CommitTx(GlobalAddOrder(DB, NewNetworkOrder(order_id, nullifier, is_local)))
     /\ bus' = <<>>

handle_new_order(order_id, nullifier, cluster, nullifier_unused) ==
  IF ~nullifier_unused
  THEN UNCHANGED obvars
  ELSE LET is_local == cluster = LocalCluster
       IN /\ CommitTx(GlobalAddOrder(DB, NewNetworkOrder(order_id, nullifier, is_local)))
          /\ bus' = <<>>

handle_new_validity_proof(order_id, cluster, proof_bundle, a) ==
  LET is_local == cluster = LocalCluster
  IN IF ~is_local /\ ~verify_validity_proofs(a)
     THEN UNCHANGED obvars
     ELSE LET tx1 == IF read_order_info(DB, order_id) = None
                     THEN GlobalAddOrder(DB, NewNetworkOrder(order_id,
                            proof_bundle.original_shares_nullifier, is_local))
                     ELSE DB
          IN /\ CommitTx(attach_validity_proof_with_tx(tx1, order_id, proof_bundle).tx)
             /\ bus' = <<>>

\* order_info: the order a peer sent, with the cluster it names and the proof
\* bundle it carries, if any
handle_order_info_response(order_id, nullifier, cluster, proof, a) ==
  LET is_local == cluster = LocalCluster
      tx1 == GlobalAddOrder(DB, NetworkOrder(order_id, nullifier, "Received", None, is_local))
  IN /\ bus' = <<>>
     /\ IF proof = None \/ (~is_local /\ ~verify_validity_proofs(a))
        THEN CommitTx(tx1)
        ELSE CommitTx(attach_validity_proof_with_tx(tx1, order_id, Unwrap(proof)).tx)

HandleNewOrder ==
  \E id \in OrderIds, n \in Nullifiers, c \in Clusters, unused \in BOOLEAN :
    handle_new_order(id, n, c, unused)
HandleNewValidityProof ==
  \E id \in OrderIds, c \in Clusters, proof \in ProofBundles, a \in Answers :
    handle_new_validity_proof(id, c, proof, a)
HandleOrderInfoResponse ==
  \E id \in OrderIds, n \in Nullifiers, c \in Clusters,
     proof \in {None} \cup {Some(b) : b \in ProofBundles}, a \in Answers :
    handle_order_info_response(id, n, c, proof, a)

\* -------------------------------------------------------------- heartbeat
\* core gossip heartbeat.rs.  The peer index and the expiry cache sit behind
\* their own locks; every region a function holds one lock for is one step, and
\* get_current_time_seconds is read where the code reads it.
HEARTBEAT_FAILURE_MS == 7000
EXPIRY_INVISIBILITY_WINDOW_MS == 10000
EXPIRY_CACHE_SIZE == 100
MillisPerSecond == 1000

\* The local peer and the other node of the cluster
LocalPeer == 1
Peers == Nodes

\* The clock is read at whole multiples of the failure threshold: one step of the
\* clock makes a heartbeat of the step before due for expiry, two steps close the
\* invisibility window
HeartbeatFailureSeconds == HEARTBEAT_FAILURE_MS \div MillisPerSecond
MaxTime == MaxTicks * HeartbeatFailureSeconds

Min(a, b) == IF a < b THEN a ELSE b

\* LruCache<WrappedPeerId, u64>: the entries, most recently used first
CacheEntry(peer_id, expired_at) == [peer_id |-> peer_id, expired_at |-> expired_at]

LruWithout(cache, peer_id) == SelectSeq(cache, LAMBDA e : e.peer_id # peer_id)

LruFind(cache, peer_id) ==
  LET hits == SelectSeq(cache, LAMBDA e : e.peer_id = peer_id)
  IN IF hits = <<>> THEN None ELSE Some(hits[1].expired_at)

\* get marks the entry most recently used
LruGet(cache, peer_id) ==
  LET found == LruFind(cache, peer_id)
  IN IF found = None THEN cache
     ELSE <<CacheEntry(peer_id, Unwrap(found))>> \o LruWithout(cache, peer_id)

\* put inserts or updates and evicts the least recently used entry over capacity
LruPut(cache, peer_id, value) ==
  LET all == <<CacheEntry(peer_id, value)>> \o LruWithout(cache, peer_id)
  IN SubSeq(all, 1, Min(Len(all), EXPIRY_CACHE_SIZE))

LruPopEntry(cache, peer_id) == LruWithout(cache, peer_id)

\* add_new_peer under the write locks of the index and the cache
NewAddr(peer_id) == [type |-> "NewAddr", peer_id |-> peer_id]

PeerState(known, cache, sent) == [known_peers |-> known, expiry_cache |-> cache, sent |-> sent]

WindowOpen(t, expired_at) == t - expired_at <= EXPIRY_INVISIBILITY_WINDOW_MS \div MillisPerSecond

\* add_new_peer that inserts whether or not the entry is vacant
add_new_peer_overwrite(S, new_peer_id, t) ==
  LET found == LruFind(S.expiry_cache, new_peer_id)
      cache1 == LruGet(S.expiry_cache, new_peer_id)
  IN IF found # None /\ WindowOpen(t, Unwrap(found))
     THEN PeerState(S.known_peers, cache1, S.sent)
     ELSE LET cache2 == IF found # None THEN LruPopEntry(cache1, new_peer_id) ELSE cache1
          IN PeerState([S.known_peers EXCEPT ![new_peer_id] = Some(t)], cache2,
                       Append(S.sent, NewAddr(new_peer_id)))

add_new_peer(S, new_peer_id, t) ==
  LET found == LruFind(S.expiry_cache, new_peer_id)
      cache1 == LruGet(S.expiry_cache, new_peer_id)
  IN IF found # None /\ WindowOpen(t, Unwrap(found))
     THEN PeerState(S.known_peers, cache1, S.sent)
     ELSE LET cache2 == IF found # None THEN LruPopEntry(cache1, new_peer_id) ELSE cache1
          IN IF S.known_peers[new_peer_id] = None
             THEN PeerState([S.known_peers EXCEPT ![new_peer_id] = Some(t)], cache2,
                            Append(S.sent, NewAddr(new_peer_id)))
             ELSE PeerState(S.known_peers, cache2, S.sent)

RECURSIVE AddPeers(_, _, _)
AddPeers(S, peers_to_add, t) ==
  IF peers_to_add = <<>> THEN S
  ELSE AddPeers(add_new_peer(S, Head(peers_to_add), t), Tail(peers_to_add), t)

\* the orders a HashMap's keys can come in
RECURSIVE Orderings(_)
Orderings(set) ==
  IF set = {} THEN {<<>>}
  ELSE UNION {{<<p>> \o rest : rest \in Orderings(set \ {p})} : p \in set}

Idle == [pc |-> "idle", peer |-> NoPeer, now |-> 0]
NotMerging == [pc |-> "idle", peers_to_add |-> <<>>]

\* The workers of the gossip server that handle inbound heartbeats
MergeWorkers == {1, 2}

\* record_heartbeat: a heartbeat response from a known peer
record_heartbeat(peer_id) ==
  /\ peer_id # LocalPeer
  /\ known_peers[peer_id] # None
  /\ known_peers' = [known_peers EXCEPT ![peer_id] = Some(now)]
  /\ UNCHANGED <<now, expiry_cache, jobs, hb, mg, expired, network_channel>>

\* execution_loop of the timer: a heartbeat job for a known peer other than the
\* local one
enqueue_heartbeat(peer_id) ==
  /\ known_peers[peer_id] # None /\ peer_id # LocalPeer /\ peer_id \notin jobs
  /\ jobs' = jobs \cup {peer_id}
  /\ UNCHANGED <<now, known_peers, expiry_cache, hb, mg, expired, network_channel>>

\* GossipOutbound::Request { peer_id, message: GossipRequest::Heartbeat(..) }
HeartbeatRequest(peer_id) == [type |-> "Heartbeat", peer_id |-> peer_id]

\* send_heartbeat without the comparison of the recipient with the local peer
send_heartbeat_toself(recipient_peer_id) ==
  /\ hb.pc = "idle" /\ recipient_peer_id \in jobs
  /\ jobs' = jobs \ {recipient_peer_id}
  /\ hb' = [pc |-> "check", peer |-> recipient_peer_id, now |-> now]
  /\ network_channel' = <<HeartbeatRequest(recipient_peer_id)>>
  /\ UNCHANGED <<now, known_peers, expiry_cache, mg, expired>>

\* An ExecuteHeartbeat job taken off the job queue, whoever sent it
execute_heartbeat_job(peer_id) ==
  /\ peer_id \notin jobs
  /\ jobs' = jobs \cup {peer_id}
  /\ UNCHANGED <<now, known_peers, expiry_cache, hb, mg, expired, network_channel>>

\* send_heartbeat up to the clock read of maybe_expire_peer
send_heartbeat(recipient_peer_id) ==
  /\ hb.pc = "idle" /\ recipient_peer_id \in jobs
  /\ jobs' = jobs \ {recipient_peer_id}
  /\ hb' = IF recipient_peer_id = LocalPeer THEN Idle
           ELSE [pc |-> "check", peer |-> recipient_peer_id, now |-> now]
  /\ network_channel' = IF recipient_peer_id = LocalPeer THEN network_channel
                        ELSE <<HeartbeatRequest(recipient_peer_id)>>
  /\ UNCHANGED <<now, known_peers, expiry_cache, mg, expired>>

\* maybe_expire_peer, the read-locked block.  unwrap panics when the peer has left
\* the index; `now - last_heartbeat` on u64 underflows when the heartbeat is later
\* than the clock read: a panic with overflow checks, a wrapped difference (never
\* below the threshold) without them.
ExpiryDue(t, last_heartbeat) == ~(t - last_heartbeat < HEARTBEAT_FAILURE_MS \div MillisPerSecond)

maybe_expire_check ==
  /\ hb.pc = "check"
  /\ IF known_peers[hb.peer] = None
     THEN hb' = [hb EXCEPT !.pc = "panicked"]
     ELSE LET last_heartbeat == Unwrap(known_peers[hb.peer])
          IN IF hb.now < last_heartbeat
             THEN \E outcome \in {"panicked", "remove"} : hb' = [hb EXCEPT !.pc = outcome]
             ELSE IF ExpiryDue(hb.now, last_heartbeat)
                  THEN hb' = [hb EXCEPT !.pc = "remove"]
                  ELSE hb' = Idle
  /\ UNCHANGED <<now, known_peers, expiry_cache, jobs, mg, expired, network_channel>>

\* global_state.remove_peers(&[peer_id])
maybe_expire_remove ==
  /\ hb.pc = "remove"
  /\ known_peers' = [known_peers EXCEPT ![hb.peer] = None]
  /\ expired' = [expired EXCEPT ![hb.peer] = Some(hb.now)]
  /\ hb' = [hb EXCEPT !.pc = "put"]
  /\ UNCHANGED <<now, expiry_cache, jobs, mg, network_channel>>

\* locked_expiry_cache.put(peer_id, now)
maybe_expire_put ==
  /\ hb.pc = "put"
  /\ expiry_cache' = LruPut(expiry_cache, hb.peer, hb.now)
  /\ hb' = Idle
  /\ UNCHANGED <<now, known_peers, jobs, mg, expired, network_channel>>

\* merge_peer_index run by worker w, the read-locked block
merge_peer_index_read(w, incoming_peer_info) ==
  /\ mg[w].pc = "idle"
  /\ \E peers_to_add \in Orderings({p \in incoming_peer_info : known_peers[p] = None}) :
       mg' = [mg EXCEPT ![w] = IF peers_to_add = <<>> THEN NotMerging
                               ELSE [pc |-> "write", peers_to_add |-> peers_to_add]]
  /\ UNCHANGED <<now, known_peers, expiry_cache, jobs, hb, expired, network_channel>>

\* merge_peer_index, the write-locked loop over peers_to_add
merge_peer_index_write(w) ==
  /\ mg[w].pc = "write"
  /\ LET S == AddPeers(PeerState(known_peers, expiry_cache, <<>>), mg[w].peers_to_add, now)
     IN /\ known_peers' = S.known_peers
        /\ expiry_cache' = S.expiry_cache
        /\ network_channel' = S.sent
  /\ mg' = [mg EXCEPT ![w] = NotMerging]
  /\ UNCHANGED <<now, jobs, hb, expired>>

Tick ==
  /\ now + HeartbeatFailureSeconds <= MaxTime
  /\ now' = now + HeartbeatFailureSeconds
  /\ UNCHANGED <<known_peers, expiry_cache, jobs, hb, mg, expired, network_channel>>

HBInit ==
  /\ now = 0
  /\ known_peers = [p \in Peers |-> Some(0)]
  /\ expiry_cache = <<>>
  /\ jobs = {}
  /\ hb = Idle
  /\ mg = [w \in MergeWorkers |-> NotMerging]
  /\ network_channel = <<>>
  /\ expired = [p \in Peers |-> None]


\* -------------------------------------------------- heartbeat: the timer
HEARTBEAT_INTERVAL_MS == 3000
NANOS_PER_MILLI == 1000000
NANOS_PER_SEC == 1000000000

\* std::time::Duration: whole seconds and the nanoseconds below one second
Duration(secs, nanos) == [secs |-> secs, nanos |-> nanos]

\* Duration / u32 as the standard library computes it
DurationDiv(d, rhs) ==
  LET secs == d.secs \div rhs
      carry == d.secs - secs * rhs
      extra_nanos == (carry * NANOS_PER_SEC) \div rhs
  IN Duration(secs, d.nanos \div rhs + extra_nanos)

DurationAdd(a, b) ==
  LET nanos == a.nanos + b.nanos
  IN IF nanos >= NANOS_PER_SEC THEN Duration(a.secs + b.secs + 1, nanos - NANOS_PER_SEC)
     ELSE Duration(a.secs + b.secs, nanos)

DurationLe(a, b) == a.secs < b.secs \/ (a.secs = b.secs /\ a.nanos <= b.nanos)

\* HeartbeatTimer::new: the wait period of an interval in milliseconds
WaitPeriod(interval_ms) ==
  Duration(interval_ms \div 1000, (interval_ms % 1000) * NANOS_PER_MILLI)

wait_period == WaitPeriod(HEARTBEAT_INTERVAL_MS)

\* peer_info_locked.keys(): the peers of the index, in an order that stays the
\* same while the index does
KnownPeerIds == {p \in Peers : known_peers[p] # None}

RECURSIVE KeysOf(_)
KeysOf(set) ==
  IF set = {} THEN <<>>
  ELSE LET least == CHOOSE p \in set : \A q \in set : p <= q
       IN <<least>> \o KeysOf(set \ {least})

\* The record of a pass of the loop through the index: the index when the pass
\* began, whether it is still the same, the jobs enqueued and the time slept
NewPass(peers) ==
  [cycle_peers |-> peers, steady |-> TRUE, enqueued |-> [p \in Peers |-> 0],
   slept |-> Duration(0, 0), wrapped |-> FALSE]

\* One iteration of execution_loop whose wrap of peer_index lets the index run
\* one past the peer count
execution_loop_late_wrap ==
  /\ timer.pc = "run"
  /\ LET keys == KeysOf(KnownPeerIds)
         peer_count == Len(keys)
         pass == IF timer.peer_index = 0 THEN NewPass(KnownPeerIds) ELSE timer.pass
         next_peer_id == IF timer.peer_index + 1 > peer_count
                            \/ keys[timer.peer_index + 1] = LocalPeer
                         THEN None ELSE Some(keys[timer.peer_index + 1])
         wraps == timer.peer_index + 1 > peer_count
     IN /\ jobs' = IF next_peer_id = None THEN jobs ELSE jobs \cup {Unwrap(next_peer_id)}
        /\ timer' =
             [pc |-> IF peer_count = 0 THEN "panicked" ELSE "run",
              peer_index |-> IF wraps THEN 0 ELSE timer.peer_index + 1,
              pass |-> [cycle_peers |-> pass.cycle_peers,
                        steady |-> pass.steady /\ KnownPeerIds = pass.cycle_peers,
                        enqueued |-> IF next_peer_id = None THEN pass.enqueued
                                     ELSE [pass.enqueued EXCEPT ![Unwrap(next_peer_id)] = @ + 1],
                        slept |-> IF peer_count = 0 THEN pass.slept
                                  ELSE DurationAdd(pass.slept, DurationDiv(wait_period, peer_count)),
                        wrapped |-> wraps]]
  /\ UNCHANGED <<now, known_peers, expiry_cache, hb, mg, expired, network_channel>>

\* One iteration of execution_loop: the peer at peer_index gets a job unless it
\* is the local peer or the index is past the end; peer_index advances and wraps;
\* the thread sleeps wait_period / peer_count, a division that panics on an
\* empty index
execution_loop ==
  /\ timer.pc = "run"
  /\ LET keys == KeysOf(KnownPeerIds)
         peer_count == Len(keys)
         pass == IF timer.peer_index = 0 THEN NewPass(KnownPeerIds) ELSE timer.pass
         next_peer_id == IF timer.peer_index + 1 > peer_count
                            \/ keys[timer.peer_index + 1] = LocalPeer
                         THEN None ELSE Some(keys[timer.peer_index + 1])
         wraps == timer.peer_index + 1 >= peer_count
     IN /\ jobs' = IF next_peer_id = None THEN jobs ELSE jobs \cup {Unwrap(next_peer_id)}
        /\ timer' =
             [pc |-> IF peer_count = 0 THEN "panicked" ELSE "run",
              peer_index |-> IF wraps THEN 0 ELSE timer.peer_index + 1,
              pass |-> [cycle_peers |-> pass.cycle_peers,
                        steady |-> pass.steady /\ KnownPeerIds = pass.cycle_peers,
                        enqueued |-> IF next_peer_id = None THEN pass.enqueued
                                     ELSE [pass.enqueued EXCEPT ![Unwrap(next_peer_id)] = @ + 1],
                        slept |-> IF peer_count = 0 THEN pass.slept
                                  ELSE DurationAdd(pass.slept, DurationDiv(wait_period, peer_count)),
                        wrapped |-> wraps]]
  /\ UNCHANGED <<now, known_peers, expiry_cache, hb, mg, expired, network_channel>>

TimerInit == timer = [pc |-> "run", peer_index |-> 0, pass |-> NewPass({})]

\* ------------------------------------------------ heartbeat: wallet merge
\* The wallets the local node manages, and one it does not
ManagedWalletIds == 1..MaxWallets
WalletIds == 1..(MaxWallets + 1)

\* managed_wallets of a heartbeat message: wallet id -> the replicas the sender
\* knows, None for a wallet the sender does not replicate
PeerWallets == [WalletIds -> {None} \cup {Some(r) : r \in SUBSET Peers}]

NotMergingWallets == [pc |-> "idle", wallets_to_merge |-> {}, peer_wallets |-> <<>>]

\* merge_wallets, phase one under the read lock: the managed wallets whose local
\* replicas are not a superset of the message's
merge_wallets_read(peer_wallets) ==
  /\ mw.pc = "idle"
  /\ LET wallets_to_merge ==
           {wallet_id \in WalletIds :
              /\ managed_wallets[wallet_id] # None
              /\ peer_wallets[wallet_id] # None
              /\ ~(Unwrap(peer_wallets[wallet_id]) \subseteq Unwrap(managed_wallets[wallet_id]))}
     IN mw' = IF wallets_to_merge = {} THEN NotMergingWallets
              ELSE [pc |-> "write", wallets_to_merge |-> wallets_to_merge,
                    peer_wallets |-> peer_wallets]
  /\ UNCHANGED <<managed_wallets, cluster_members, mc>>

\* DialableReplicas without the look-up in the peer index
DialableReplicasAll(message_replicas) == message_replicas

\* The replicas of the message the local node has peer info for
DialableReplicas(message_replicas) == {replica \in message_replicas : known_peers[replica] # None}

\* merge_wallets, phase two under the write lock of the wallets and the read lock
\* of the peer index
merge_wallets_write ==
  /\ mw.pc = "write"
  /\ managed_wallets' =
       [wallet \in WalletIds |->
          IF wallet \in mw.wallets_to_merge
          THEN Some(Unwrap(managed_wallets[wallet])
                      \cup DialableReplicas(Unwrap(mw.peer_wallets[wallet])))
          ELSE managed_wallets[wallet]]
  /\ mw' = NotMergingWallets
  /\ UNCHANGED <<cluster_members, mc>>

\* ----------------------------------------------- heartbeat: cluster merge
\* GossipOutbound::Request { peer_id, message: GossipRequest::ClusterAuth(..) }
ClusterAuth(peer_id) == [type |-> "ClusterAuth", peer_id |-> peer_id]

NotMergingCluster == [pc |-> "idle", known_members |-> {}, peers_to_add |-> <<>>]

\* ClusterMetadata::has_member
has_member(peer) == peer \in cluster_members

\* merge_cluster_metadata with a read phase that takes every claimed member
merge_cluster_metadata_read_all(known_members) ==
  /\ mc.pc = "idle"
  /\ \E peers_to_add \in Orderings(known_members) :
       mc' = [pc |-> "send", known_members |-> known_members, peers_to_add |-> peers_to_add]
  /\ UNCHANGED <<managed_wallets, mw, cluster_members>>
  /\ UNCHANGED hbvars

\* merge_cluster_metadata under the read lock of the cluster metadata: the
\* claimed members the local metadata does not hold
merge_cluster_metadata_read(known_members) ==
  /\ mc.pc = "idle"
  /\ \E peers_to_add \in Orderings({peer \in known_members : ~has_member(peer)}) :
       mc' = [pc |-> "send", known_members |-> known_members, peers_to_add |-> peers_to_add]
  /\ UNCHANGED <<managed_wallets, mw, cluster_members>>
  /\ UNCHANGED hbvars

\* merge_cluster_metadata after the lock is released: one ClusterAuth request to
\* each collected peer; the membership is not written
merge_cluster_metadata_send ==
  /\ mc.pc = "send"
  /\ network_channel' = [i \in 1..Len(mc.peers_to_add) |-> ClusterAuth(mc.peers_to_add[i])]
  /\ mc' = NotMergingCluster
  /\ UNCHANGED <<managed_wallets, mw, cluster_members>>
  /\ UNCHANGED <<now, known_peers, expiry_cache, jobs, hb, mg, expired>>

\* The keys a ClusterAuth response can be signed with, and the local cluster's
ClusterKeys == {1, 2}
ClusterPublicKey == 1
verify_signature(signed_with) == signed_with = ClusterPublicKey

\* The answer to a ClusterAuth request: the peer joins the membership when its
\* signature verifies against the cluster's public key
handle_cluster_auth_response(peer, signed_with) ==
  /\ cluster_members' = IF verify_signature(signed_with)
                        THEN cluster_members \cup {peer} ELSE cluster_members
  /\ UNCHANGED <<managed_wallets, mw, mc>>
  /\ UNCHANGED hbvars

\* ------------------------------------------------- cluster management
\* GossipOutbound::Request { peer_id, message: GossipRequest::Replicate(..) }
ReplicateRequest(peer_id, wallets) == [type |-> "Replicate", peer_id |-> peer_id, wallets |-> wallets]

\* WalletIndex::get_all_wallets
get_all_wallets == {wallet \in WalletIds : managed_wallets[wallet] # None}

\* send_replicate_request: what it puts on the network channel
send_replicate_request(peer, wallets) ==
  IF wallets = {} THEN <<>> ELSE <<ReplicateRequest(peer, wallets)>>

\* RelayerState::add_single_peer: the peer index with the peer in it
add_single_peer(peer_id) ==
  IF known_peers[peer_id] = None THEN [known_peers EXCEPT ![peer_id] = Some(now)]
  ELSE known_peers

\* add_peer_to_cluster: indexes the peer and asks it to replicate the wallets
add_peer_to_cluster(peer_id, cluster_id) ==
  IF cluster_id # LocalCluster
  THEN [known_peers |-> known_peers, sent |-> <<>>]
  ELSE [known_peers |-> add_single_peer(peer_id),
        sent |-> send_replicate_request(peer_id, get_all_wallets)]

\* handle_cluster_join_job: ignores other clusters' messages; adds the peer,
\* then asks it to replicate the wallets
handle_cluster_join_job(cluster_id, peer_id) ==
  /\ IF cluster_id # LocalCluster
     THEN /\ network_channel' = <<>>
          /\ UNCHANGED known_peers
     ELSE LET added == add_peer_to_cluster(peer_id, cluster_id)
          IN /\ known_peers' = added.known_peers
             /\ network_channel' =
                  added.sent \o send_replicate_request(peer_id, get_all_wallets)
  /\ UNCHANGED <<now, expiry_cache, jobs, hb, mg, expired>>
  /\ UNCHANGED clvars

ClInit ==
  /\ managed_wallets = [wallet \in WalletIds |->
                          IF wallet \in ManagedWalletIds THEN Some({LocalPeer}) ELSE None]
  /\ mw = NotMergingWallets
  /\ cluster_members = {LocalPeer}
  /\ mc = NotMergingCluster

\* A node that may hold no wallet yet
ClInitAnyWallets ==
  /\ \E held \in {{}, ManagedWalletIds} :
       managed_wallets = [wallet \in WalletIds |->
                            IF wallet \in held THEN Some({LocalPeer}) ELSE None]
  /\ mw = NotMergingWallets
  /\ cluster_members = {LocalPeer}
  /\ mc = NotMergingCluster

\* ------------------------------------------------------ network manager
\* The request/response message types, and the ones scoped to the cluster
MessageTypes ==
  {"Heartbeat", "ClusterAuth", "Replicate", "OrderInfo", "ValidityProof", "ValidityWitness", "Raft"}
ClusterScopedTypes == {"Replicate", "ValidityWitness", "Raft"}
requires_cluster_auth(message) == message.type \in ClusterScopedTypes

GossipMessage(type, payload) == [type |-> type, payload |-> payload]
Payloads == {1, 2}

\* GossipOutbound: what the workers hand to the network manager, to peer 2, on
\* response channel 1 or on topic 0
OutboundRequest(peer_id, message) == [kind |-> "Request", to |-> peer_id, message |-> message]
OutboundResponse(channel, message) == [kind |-> "Response", to |-> channel, message |-> message]
OutboundPubsub(topic, message) == [kind |-> "Pubsub", to |-> topic, message |-> message]
GossipOutbounds ==
  {OutboundRequest(2, GossipMessage(t, p)) : t \in MessageTypes, p \in Payloads}
    \cup {OutboundResponse(1, GossipMessage(t, p)) : t \in MessageTypes, p \in Payloads}
    \cup {OutboundPubsub(0, GossipMessage("ClusterJoin", p)) : p \in Payloads}

\* A signature is the key it was made with and the body it was made over
Sign(key, body) == Some([key |-> key, body |-> body])
Verifies(signature, key, body) ==
  signature # None /\ Unwrap(signature).key = key /\ Unwrap(signature).body = body

\* new_with_body that signs nothing
new_with_body_unsigned(body, cluster_key) == [body |-> body, sig |-> None]

\* AuthenticatedGossipRequest/Response::new_with_body: the body, and a
\* signature with the cluster key when the body's type is cluster-scoped
new_with_body(body, cluster_key) ==
  [body |-> body,
   sig |-> IF requires_cluster_auth(body) THEN Sign(cluster_key, body) ELSE None]

\* What the swarm is given: send_request, send_response or a publish
SwarmSend(kind, to, envelope) == [kind |-> kind, to |-> to, envelope |-> envelope]

\* handle_outbound_message that hands the body to the swarm as it came
handle_outbound_message_raw(msg, signing) ==
  /\ Len(swarm) < MaxSent
  /\ swarm' = Append(swarm, SwarmSend(msg.kind, msg.to, [body |-> msg.message, sig |-> None]))

\* handle_outbound_message: requests and responses go through new_with_body with
\* the cluster key; a signing error returns before anything is sent
handle_outbound_message(msg, signing) ==
  /\ Len(swarm) < MaxSent
  /\ IF msg.kind \in {"Request", "Response"}
     THEN IF signing = "err" /\ requires_cluster_auth(msg.message)
          THEN UNCHANGED swarm
          ELSE swarm' = Append(swarm, SwarmSend(msg.kind, msg.to,
                                                new_with_body(msg.message, ClusterPublicKey)))
     ELSE swarm' = Append(swarm, SwarmSend(msg.kind, msg.to, [body |-> msg.message, sig |-> None]))

\* ------------------------------------ network manager: the executor loop
\* executor_loop: one branch of the select! per step.  What the handlers whose
\* bodies lie outside manager.rs return is an input.
HandledEvent(kind, result) == [kind |-> kind, result |-> result]

Looping(events) == [pc |-> "loop", events |-> events, returned |-> None]

\* What handle_outbound_message returns
handle_outbound_message_result(msg, signing) ==
  IF msg.kind \in {"Request", "Response"} /\ signing = "err" /\ requires_cluster_auth(msg.message)
  THEN "Err" ELSE "Ok"

\* Some(message) = job_channel.recv()
executor_loop_job(msg, signing) ==
  /\ network_executor.pc = "loop" /\ Len(network_executor.events) < MaxEvents
  /\ handle_outbound_message(msg, signing)
  /\ network_executor' = Looping(Append(network_executor.events,
                   HandledEvent("job", handle_outbound_message_result(msg, signing))))

SwarmEvents == {"Behaviour", "NewListenAddr", "Other"}

\* The swarm branch with a handler error returned to the caller
executor_loop_swarm_event_propagate(event, result) ==
  /\ network_executor.pc = "loop" /\ Len(network_executor.events) < MaxEvents
  /\ network_executor' =
       IF event = "Behaviour" /\ result = "Err"
       THEN [pc |-> "returned",
             events |-> Append(network_executor.events, HandledEvent(event, result)),
             returned |-> Some("Network")]
       ELSE Looping(Append(network_executor.events,
              HandledEvent(event, IF event = "Behaviour" THEN result ELSE "Ok")))
  /\ UNCHANGED swarm

\* event = self.swarm.select_next_some(): handle_inbound_message for a behaviour
\* event, a log line for a new listen address, nothing for the rest
executor_loop_swarm_event(event, result) ==
  /\ network_executor.pc = "loop" /\ Len(network_executor.events) < MaxEvents
  /\ network_executor' = Looping(Append(network_executor.events,
                   HandledEvent(event, IF event = "Behaviour" THEN result ELSE "Ok")))
  /\ UNCHANGED swarm

BusMessages == {"InternalWalletUpdate", "Unexpected"}

\* wallet_update = wallet_update_reader.next_message()
executor_loop_wallet_update(message, result) ==
  /\ network_executor.pc = "loop" /\ Len(network_executor.events) < MaxEvents
  /\ network_executor' = Looping(Append(network_executor.events,
                   HandledEvent(message, IF message = "InternalWalletUpdate" THEN result ELSE "Ok")))
  /\ UNCHANGED swarm

\* _ = cancel_channel.changed(): the branch matches whatever changed() returns,
\* a new value or the error of a dropped sender
executor_loop_cancel(changed) ==
  /\ network_executor.pc = "loop" /\ Len(network_executor.events) < MaxEvents
  /\ network_executor' = [pc |-> "returned",
                  events |-> Append(network_executor.events, HandledEvent("cancel", changed)),
                  returned |-> Some("Cancelled")]
  /\ UNCHANGED swarm

NetInit == swarm = <<>> /\ network_executor = Looping(<<>>)

\* ---------------------------------------------------------- the wallet
\* The fields of Wallet the staleness policy can read
Wallet(staleness) == [proof_staleness |-> staleness]

\* Wallet::needs_new_commitment_proof
needs_new_commitment_proof(wallet) == FALSE

\* append_wallet_refresh_task: a RefreshWallet descriptor for the wallet, appended
\* through append_task; returns once the transition is applied
append_wallet_refresh_task(self_id, wallet_id) ==
  /\ append_task(self_id, wallet_id)
  /\ refresh_tasks' = refresh_tasks \cup {nextId}
  /\ UNCHANGED proof_staleness

\* An on-chain Merkle root change observed for a wallet: the counter goes up, and
\* a wallet reported as needing new commitment proofs gets a refresh task
on_merkle_root_change(self_id, wallet_id) ==
  /\ proof_staleness[wallet_id] < MaxStaleness
  /\ proof_staleness' = [proof_staleness EXCEPT ![wallet_id] = @ + 1]
  /\ IF needs_new_commitment_proof(Wallet(proof_staleness[wallet_id] + 1))
     THEN /\ append_task(self_id, wallet_id)
          /\ refresh_tasks' = refresh_tasks \cup {nextId}
     ELSE UNCHANGED <<tqvars, refresh_tasks>>

WalletInit ==
  /\ proof_staleness = [wallet_id \in Keys |-> 0]
  /\ refresh_tasks = {}

\* ------------------------------------------------ the wallet's shares
\* The scalar field, cut down to a prime small enough to enumerate
ScalarModulus == 3
Scalars == 0..(ScalarModulus - 1)
ScalarAdd(a, b) == (a + b) % ScalarModulus
ScalarSub(a, b) == (a - b + ScalarModulus) % ScalarModulus

\* The hash the chain is built from: a fixed function of the field into itself
compute_hash(x) == (x * x + 1) % ScalarModulus

\* evaluate_hash_chain(seed, length): H(seed), H(H(seed)), ...
RECURSIVE evaluate_hash_chain(_, _)
evaluate_hash_chain(seed, length) ==
  IF length = 0 THEN <<>>
  ELSE <<compute_hash(seed)>> \o evaluate_hash_chain(compute_hash(seed), length - 1)

\* The plaintext wallet, one scalar for each of its parts
Plaintext(b, o, f, k) == [balances |-> b, orders |-> o, fees |-> f, keys |-> k]
Plaintexts ==
  {Plaintext(b, o, f, k) : b \in Scalars, o \in Scalars, f \in Scalars, k \in Scalars}

\* The circuit wallet's to_scalars: the parts in order, the blinder last
WalletScalars(plaintext, blinder) ==
  <<plaintext.balances, plaintext.orders, plaintext.fees, plaintext.keys, blinder>>
N_SHARES == 5

\* WalletShare::blind and unblind: the blinder goes onto, and comes off, every
\* share but the blinder's own
blind_shares(shares, blinder) ==
  [i \in 1..Len(shares) |->
     IF i = Len(shares) THEN shares[i] ELSE ScalarAdd(shares[i], blinder)]
unblind_shares(shares, blinder) ==
  [i \in 1..Len(shares) |->
     IF i = Len(shares) THEN shares[i] ELSE ScalarSub(shares[i], blinder)]

add_shares(a, b) == [i \in 1..Len(a) |-> ScalarAdd(a[i], b[i])]

\* create_wallet_shares_from_private: the public shares are the wallet less the
\* private shares, blinded with the blinder
create_wallet_shares_from_private(plaintext, private_shares, blinder) ==
  LET wallet_scalars == WalletScalars(plaintext, blinder)
      public_shares == [i \in 1..Len(wallet_scalars) |->
                          ScalarSub(wallet_scalars[i], private_shares[i])]
  IN [private_shares |-> private_shares,
      blinded_public_shares |-> blind_shares(public_shares, blinder)]

\* reblind_wallet that keeps the old blinder in the wallet
reblind_wallet_keep_blinder(w) ==
  LET private_shares_serialized == w.private_shares
      n_shares == Len(private_shares_serialized)
      blinder_and_private_share == evaluate_hash_chain(private_shares_serialized[n_shares], 2)
      new_blinder == blinder_and_private_share[1]
      new_blinder_private_share == blinder_and_private_share[2]
      new_private_shares ==
        Append(evaluate_hash_chain(private_shares_serialized[n_shares - 1], n_shares - 1),
               new_blinder_private_share)
      shares == create_wallet_shares_from_private(w.plaintext, new_private_shares, new_blinder)
  IN [plaintext |-> w.plaintext, blinder |-> w.blinder,
      private_shares |-> shares.private_shares,
      blinded_public_shares |-> shares.blinded_public_shares]

\* Wallet::reblind_wallet: the new blinder and its private share come from the
\* hash chain of the last private share, the other private shares from the chain
\* of the one before it
reblind_wallet(w) ==
  LET private_shares_serialized == w.private_shares
      n_shares == Len(private_shares_serialized)
      blinder_and_private_share == evaluate_hash_chain(private_shares_serialized[n_shares], 2)
      new_blinder == blinder_and_private_share[1]
      new_blinder_private_share == blinder_and_private_share[2]
      new_private_shares ==
        Append(evaluate_hash_chain(private_shares_serialized[n_shares - 1], n_shares - 1),
               new_blinder_private_share)
      shares == create_wallet_shares_from_private(w.plaintext, new_private_shares, new_blinder)
  IN [plaintext |-> w.plaintext, blinder |-> new_blinder,
      private_shares |-> shares.private_shares,
      blinded_public_shares |-> shares.blinded_public_shares]

ReblindWallet == wallet_state' = reblind_wallet(wallet_state)

\* A wallet as its creation leaves it: shares made from the plaintext
NewWallet(plaintext, private_shares, blinder) ==
  LET shares == create_wallet_shares_from_private(plaintext, private_shares, blinder)
  IN [plaintext |-> plaintext, blinder |-> blinder,
      private_shares |-> shares.private_shares,
      blinded_public_shares |-> shares.blinded_public_shares]

SharesInit == wallet_state = NewWallet(Plaintext(1, 1, 1, 1), [i \in 1..N_SHARES |-> 0], 0)

\* Every plaintext under every private share vector, before any reblind: the
\* blinder is one no hash chain yields
SharesInitAny ==
  \E plaintext \in Plaintexts, private_shares \in [1..N_SHARES -> Scalars] :
    wallet_state = NewWallet(plaintext, private_shares, 0)

\* ------------------------------------------------ circuit_type: BaseType
\* The types the serializers are generated for: a leaf, or a struct with its
\* fields in declaration order
ScalarType == [kind |-> "Scalar"]
DirectionType == [kind |-> "ExternalTransferDirection"]
StructType(fields) == [kind |-> "struct", fields |-> fields]

TestType == StructType(<<ScalarType>>)
ROOT_KEY_WORDS == 2
NonNativeKeyType == StructType(<<StructType([i \in 1..ROOT_KEY_WORDS |-> ScalarType])>>)
PublicIdentificationKeyType == StructType(<<ScalarType>>)
PublicKeyChainType == StructType(<<NonNativeKeyType, PublicIdentificationKeyType>>)
ExternalTransferType == StructType(<<ScalarType, ScalarType, ScalarType, DirectionType>>)
CircuitTypes == {TestType, PublicKeyChainType, ExternalTransferType}

LeafValue(v) == [leaf |-> v]
StructValue(fields) == [fields |-> fields]

\* Every sequence with one element of each set of the sequence of sets
RECURSIVE Product(_)
Product(sets) ==
  IF sets = <<>> THEN {<<>>}
  ELSE {<<h>> \o t : h \in Head(sets), t \in Product(Tail(sets))}

RECURSIVE ValuesOf(_)
ValuesOf(type) ==
  CASE type.kind = "Scalar" -> {LeafValue(v) : v \in Scalars}
    [] type.kind = "ExternalTransferDirection" -> {LeafValue(d) : d \in {"Deposit", "Withdrawal"}}
    [] OTHER -> {StructValue(f) :
                   f \in Product([i \in 1..Len(type.fields) |-> ValuesOf(type.fields[i])])}

\* to_scalars: a leaf's own scalars; for a struct, res.extend(self.field.to_scalars())
\* for each field in declaration order
RECURSIVE to_scalars(_, _)
RECURSIVE ExtendFields(_, _, _)
ExtendFields(fields, values, i) ==
  IF i > Len(fields) THEN <<>>
  ELSE to_scalars(fields[i], values[i]) \o ExtendFields(fields, values, i + 1)

to_scalars(type, x) ==
  CASE type.kind = "Scalar" -> <<x.leaf>>
    [] type.kind = "ExternalTransferDirection" -> <<IF x.leaf = "Deposit" THEN 0 ELSE 1>>
    [] OTHER -> ExtendFields(type.fields, x.fields, 1)

\* from_scalars on an iterator: the value read and what the iterator has left;
\* next().unwrap() on an exhausted iterator and a scalar that is no direction panic
Parsed(value, rest) == [ok |-> TRUE, value |-> value, rest |-> rest]
ParsePanic == [ok |-> FALSE, value |-> <<>>, rest |-> <<>>]

RECURSIVE from_scalars(_, _)
RECURSIVE ParseFields(_, _, _, _)
ParseFields(fields, i, it, done) ==
  IF i > Len(fields) THEN Parsed(StructValue(done), it)
  ELSE LET r == from_scalars(fields[i], it)
       IN IF r.ok THEN ParseFields(fields, i + 1, r.rest, Append(done, r.value))
          ELSE ParsePanic

\* A deserializer that fills the fields last to first
RECURSIVE ParseFieldsReversed(_, _, _, _)
ParseFieldsReversed(fields, i, it, done) ==
  IF i < 1 THEN Parsed(StructValue(done), it)
  ELSE LET r == from_scalars(fields[i], it)
       IN IF r.ok THEN ParseFieldsReversed(fields, i - 1, r.rest, <<r.value>> \o done)
          ELSE ParsePanic

from_scalars_reversed(type, it) ==
  CASE type.kind = "Scalar" ->
         IF it = <<>> THEN ParsePanic ELSE Parsed(LeafValue(Head(it)), Tail(it))
    [] type.kind = "ExternalTransferDirection" ->
         IF it = <<>> THEN ParsePanic
         ELSE IF Head(it) = 0 THEN Parsed(LeafValue("Deposit"), Tail(it))
         ELSE IF Head(it) = 1 THEN Parsed(LeafValue("Withdrawal"), Tail(it))
         ELSE ParsePanic
    [] OTHER -> ParseFieldsReversed(type.fields, Len(type.fields), it, <<>>)

from_scalars(type, it) ==
  CASE type.kind = "Scalar" ->
         IF it = <<>> THEN ParsePanic ELSE Parsed(LeafValue(Head(it)), Tail(it))
    [] type.kind = "ExternalTransferDirection" ->
         IF it = <<>> THEN ParsePanic
         ELSE IF Head(it) = 0 THEN Parsed(LeafValue("Deposit"), Tail(it))
         ELSE IF Head(it) = 1 THEN Parsed(LeafValue("Withdrawal"), Tail(it))
         ELSE ParsePanic
    [] OTHER -> ParseFields(type.fields, 1, it, <<>>)

\* A value of a generated type, serialized and read back
NoConversion == [kind |-> "none"]

BaseTypeInit ==
  \E type \in CircuitTypes : \E x \in ValuesOf(type) :
    conv = [kind |-> "BaseType", stage |-> "value", type |-> type, x |-> x]

Serialize ==
  /\ conv.kind = "BaseType" /\ conv.stage = "value"
  /\ conv' = [kind |-> "BaseType", stage |-> "scalars", type |-> conv.type, x |-> conv.x,
              serialized |-> to_scalars(conv.type, conv.x)]

Deserialize ==
  /\ conv.kind = "BaseType" /\ conv.stage = "scalars"
  /\ conv' = [kind |-> "BaseType", stage |-> "read", type |-> conv.type, x |-> conv.x,
              serialized |-> conv.serialized,
              deserialized |-> from_scalars(conv.type, conv.serialized)]

\* ------------------------------------------------- keychain: NonNativeKey
\* A BigUint is its little-endian bytes without high zero bytes (zero has
\* none); a Scalar is its canonical 32 little-endian bytes.
SCALAR_MAX_BYTES == 31
ScalarBufferBytes == 32

Zeros(n) == [i \in 1..n |-> 0]

RECURSIVE from_bytes_le(_)
from_bytes_le(bytes) ==
  IF bytes = <<>> THEN <<>>
  ELSE IF bytes[Len(bytes)] = 0 THEN from_bytes_le(SubSeq(bytes, 1, Len(bytes) - 1))
  ELSE bytes

to_bytes_le(val) == IF val = <<>> THEN <<0>> ELSE val

\* slice::chunks: consecutive chunks of size bytes, the last one shorter
RECURSIVE chunks(_, _)
chunks(bytes, size) ==
  IF bytes = <<>> THEN <<>>
  ELSE IF Len(bytes) <= size THEN <<bytes>>
  ELSE <<SubSeq(bytes, 1, size)>> \o chunks(SubSeq(bytes, size + 1, Len(bytes)), size)

\* Scalar::from_bytes_mod_order leaves a buffer below 2^252, which is below the
\* group order, as it is; only such buffers are given to it here
from_bytes_mod_order(bytes_buf) ==
  CASE bytes_buf[ScalarBufferBytes] < 16 -> bytes_buf

ScalarZero == Zeros(ScalarBufferBytes)

split_biguint_into_words(val) ==
  LET val_bytes_le == to_bytes_le(val)
      bytes_chunks == chunks(val_bytes_le, SCALAR_MAX_BYTES)
      words == [c \in 1..Len(bytes_chunks) |->
                  from_bytes_mod_order(
                    SubSeq(bytes_chunks[c] \o Zeros(ScalarBufferBytes), 1, ScalarBufferBytes))]
  IN SubSeq(words \o [i \in 1..ROOT_KEY_WORDS |-> ScalarZero], 1, ROOT_KEY_WORDS)

RECURSIVE ConcatAll(_)
ConcatAll(seqs) == IF seqs = <<>> THEN <<>> ELSE Head(seqs) \o ConcatAll(Tail(seqs))

\* Recollecting with each word's whole buffer instead of its first 31 bytes
combine_words_whole_buffer(key_words) ==
  from_bytes_le(ConcatAll([w \in 1..Len(key_words) |-> key_words[w]]))

combine_words_into_biguint(key_words) ==
  from_bytes_le(ConcatAll([w \in 1..Len(key_words) |->
                             SubSeq(key_words[w], 1, SCALAR_MAX_BYTES)]))

\* The integers converted: of every length up to MaxBytes bytes, all bytes
\* alike but one at a word boundary
ByteValues == {0, 1, 255}
BoundaryPositions ==
  {1, SCALAR_MAX_BYTES, SCALAR_MAX_BYTES + 1, SCALAR_MAX_BYTES * ROOT_KEY_WORDS,
   SCALAR_MAX_BYTES * ROOT_KEY_WORDS + 1}
BigUints ==
  {from_bytes_le([i \in 1..len |-> IF i = p THEN v ELSE fill]) :
     len \in 0..MaxBytes, p \in BoundaryPositions, v \in ByteValues, fill \in {0, 255}}

NonNativeKeyInit ==
  \E val \in BigUints : conv = [kind |-> "NonNativeKey", stage |-> "value", x |-> val]

NonNativeKeyFromBigUint ==
  /\ conv.kind = "NonNativeKey" /\ conv.stage = "value"
  /\ conv' = [kind |-> "NonNativeKey", stage |-> "key", x |-> conv.x,
              key_words |-> split_biguint_into_words(conv.x)]

BigUintFromNonNativeKey ==
  /\ conv.kind = "NonNativeKey" /\ conv.stage = "key"
  /\ conv' = [kind |-> "NonNativeKey", stage |-> "biguint", x |-> conv.x,
              key_words |-> conv.key_words,
              combined |-> combine_words_into_biguint(conv.key_words)]

\* ------------------------------------------------ circuits: match result
\* AuthenticatedMatchResult and its two conversions with a vector of scalars
MATCH_SIZE_SCALARS == 5

AuthenticatedMatchResult(quote_mint, base_mint, quote_amount, base_amount, direction) ==
  [quote_mint |-> quote_mint, base_mint |-> base_mint, quote_amount |-> quote_amount,
   base_amount |-> base_amount, direction |-> direction]

MatchResults ==
  {AuthenticatedMatchResult(qm, bm, qa, ba, d) :
     qm \in Scalars, bm \in Scalars, qa \in Scalars, ba \in Scalars, d \in {0, 1}}

\* Result<Self, MpcError>
TryFromOk(val) == [ok |-> TRUE, val |-> val]
TryFromErr(error) == [ok |-> FALSE, val |-> error]

\* From<AuthenticatedMatchResult> for Vec<AuthenticatedScalar>
MatchResultToVec(match_res) ==
  <<match_res.quote_mint, match_res.base_mint, match_res.quote_amount,
    match_res.base_amount, match_res.direction>>

\* TryFrom that reads the values in the order the serializer pushed them
MatchResultTryFromInOrder(values) ==
  IF Len(values) # MATCH_SIZE_SCALARS THEN TryFromErr("SerializationError")
  ELSE TryFromOk(AuthenticatedMatchResult(values[1], values[2], values[3], values[4], values[5]))

\* TryFrom<&[AuthenticatedScalar]> for AuthenticatedMatchResult
MatchResultTryFrom(values) ==
  IF Len(values) # MATCH_SIZE_SCALARS THEN TryFromErr("SerializationError")
  ELSE TryFromOk([quote_mint |-> values[1],
           quote_amount |-> values[2],
           base_mint |-> values[3],
           base_amount |-> values[4],
           direction |-> values[5]])

MatchResultInit ==
  \E match_res \in MatchResults :
    conv = [kind |-> "MatchResult", stage |-> "value", x |-> match_res]

SerializeMatchResult ==
  /\ conv.kind = "MatchResult" /\ conv.stage = "value"
  /\ conv' = [kind |-> "MatchResult", stage |-> "vec", x |-> conv.x,
              serialized |-> MatchResultToVec(conv.x)]

DeserializeMatchResult ==
  /\ conv.kind = "MatchResult" /\ conv.stage = "vec"
  /\ conv' = [kind |-> "MatchResult", stage |-> "read", x |-> conv.x,
              serialized |-> conv.serialized,
              deserialized |-> MatchResultTryFrom(conv.serialized)]

\* ------------------------------------- chain clients: the default path
\* compute_poseidon_hash(&[x, x]) is any function of x: the state holds the
\* function as poseidon and the empty leaf value as empty_leaf
AuthenticationPaths(poseidon, empty_leaf, darkpool, starknet) ==
  [kind |-> "AuthenticationPath", poseidon |-> poseidon, empty_leaf |-> empty_leaf,
   darkpool |-> darkpool, starknet |-> starknet]

\* darkpool-client constants.rs: push curr_val, then curr_val = hash(curr_val, curr_val)
RECURSIVE DarkpoolPathFrom(_, _, _)
DarkpoolPathFrom(poseidon, curr_val, remaining) ==
  IF remaining = 0 THEN <<>>
  ELSE <<curr_val>> \o DarkpoolPathFrom(poseidon, poseidon[curr_val], remaining - 1)

DarkpoolDefaultAuthenticationPath(poseidon, empty_leaf) ==
  DarkpoolPathFrom(poseidon, empty_leaf, MERKLE_HEIGHT)

\* starknet-client lib.rs: curr_val stays the empty leaf value, and each
\* iteration pushes hash(curr_val, curr_val)
StarknetDefaultAuthenticationPath(poseidon, empty_leaf) ==
  LET curr_val == empty_leaf
  IN [i \in 1..MERKLE_HEIGHT |-> poseidon[curr_val]]

AuthenticationPathInit ==
  \E poseidon \in [Scalars -> Scalars], empty_leaf \in Scalars :
    conv = AuthenticationPaths(poseidon, empty_leaf, <<>>, <<>>)

\* lazy_static: each path is computed at its first use
DarkpoolPathInitialized ==
  /\ conv.kind = "AuthenticationPath" /\ conv.darkpool = <<>>
  /\ conv' = [conv EXCEPT
                !.darkpool = DarkpoolDefaultAuthenticationPath(conv.poseidon, conv.empty_leaf)]

StarknetPathInitialized ==
  /\ conv.kind = "AuthenticationPath" /\ conv.starknet = <<>>
  /\ conv' = [conv EXCEPT
                !.starknet = StarknetDefaultAuthenticationPath(conv.poseidon, conv.empty_leaf)]

ConvInit == conv = NoConversion

\* ------------------------------------------- gossip: validity witnesses
\* gossip-server orderbook.rs.  peer_info holds each peer's cluster id, if the
\* peer is indexed; order_book holds, for each indexed order, its witness, if
\* one is stored.
Witnesses == {1, 2}

ValidityWitness(peer_id, order_id, witness) ==
  [type |-> "ValidityWitness", peer_id |-> peer_id, order_id |-> order_id, witness |-> witness]

Handled(peer_id, order_id, result) == [peer |-> peer_id, order |-> order_id, result |-> result]

\* handle_validity_witness_request without the comparison of cluster ids
handle_validity_witness_request_anycluster(order_id, requesting_peer) ==
  LET info == witness_exchange.peer_info[requesting_peer]
      order_info == witness_exchange.order_book[order_id]
  IN /\ Len(witness_exchange.sent) < MaxSent
     /\ witness_exchange' =
          IF info = None
          THEN [witness_exchange EXCEPT
                  !.last = Handled(requesting_peer, order_id, "MissingState")]
          ELSE IF order_info # None /\ Unwrap(order_info) # None
          THEN [witness_exchange EXCEPT
                  !.sent = Append(@, ValidityWitness(requesting_peer, order_id,
                                                     Unwrap(Unwrap(order_info)))),
                  !.last = Handled(requesting_peer, order_id, "Ok")]
          ELSE [witness_exchange EXCEPT !.last = Handled(requesting_peer, order_id, "Ok")]

handle_validity_witness_request(order_id, requesting_peer) ==
  LET info == witness_exchange.peer_info[requesting_peer]
      order_info == witness_exchange.order_book[order_id]
  IN /\ Len(witness_exchange.sent) < MaxSent
     /\ witness_exchange' =
          IF info = None
          THEN [witness_exchange EXCEPT
                  !.last = Handled(requesting_peer, order_id, "MissingState")]
          ELSE IF Unwrap(info) # LocalCluster
          THEN [witness_exchange EXCEPT !.last = Handled(requesting_peer, order_id, "Ok")]
          ELSE IF order_info # None /\ Unwrap(order_info) # None
          THEN [witness_exchange EXCEPT
                  !.sent = Append(@, ValidityWitness(requesting_peer, order_id,
                                                     Unwrap(Unwrap(order_info)))),
                  !.last = Handled(requesting_peer, order_id, "Ok")]
          ELSE [witness_exchange EXCEPT !.last = Handled(requesting_peer, order_id, "Ok")]

WitnessInit ==
  witness_exchange = [peer_info |-> [p \in Peers |-> None],
                      order_book |-> [id \in OrderIds |-> None],
                      sent |-> <<>>, last |-> Handled(NoPeer, 0, "none")]

\* Any peer index and any order book
WitnessInitAny ==
  \E peer_info \in [Peers -> {None} \cup {Some(c) : c \in Clusters}] :
    \E order_book \in [OrderIds -> {None, Some(None)} \cup {Some(Some(w)) : w \in Witnesses}] :
      witness_exchange = [peer_info |-> peer_info, order_book |-> order_book,
                          sent |-> <<>>, last |-> Handled(NoPeer, 0, "none")]

\* --------------------------------------------------------- specifications
Init == TQInit /\ DrvInit /\ OBInit /\ HBInit /\ RepInit /\ ClInit /\ TimerInit /\ NetInit /\ WalletInit /\ SharesInit /\ ConvInit /\ WitnessInit

\* what the steps of each subsystem leave alone
exceptTQ == <<drvvars, obvars, hbvars, repvars, clvars, tmvars, nmvars, wlvars, wtvars, cvvars, vwvars>>
exceptDriver == <<obvars, hbvars, repvars, clvars, tmvars, nmvars, wlvars, wtvars, cvvars, vwvars>>
exceptOB == <<tqvars, drvvars, hbvars, repvars, clvars, tmvars, nmvars, wlvars, wtvars, cvvars, vwvars>>
exceptHB == <<tqvars, drvvars, obvars, repvars, clvars, tmvars, nmvars, wlvars, wtvars, cvvars, vwvars>>
exceptGossip == <<tqvars, drvvars, obvars, repvars, tmvars, nmvars, wlvars, wtvars, cvvars, vwvars>>
exceptTimer == <<tqvars, drvvars, obvars, repvars, clvars, nmvars, wlvars, wtvars, cvvars, vwvars>>
exceptNetwork == <<tqvars, drvvars, obvars, hbvars, repvars, clvars, tmvars, wlvars, wtvars, cvvars, vwvars>>
exceptWallet == <<drvvars, obvars, hbvars, repvars, clvars, tmvars, nmvars, wtvars, cvvars, vwvars>>
exceptShares == <<tqvars, drvvars, obvars, hbvars, repvars, clvars, tmvars, nmvars, wlvars, cvvars, vwvars>>
exceptConv == <<tqvars, drvvars, obvars, hbvars, repvars, clvars, tmvars, nmvars, wlvars, wtvars, vwvars>>
exceptWitness == <<tqvars, drvvars, obvars, hbvars, repvars, clvars, tmvars, nmvars, wlvars, wtvars, cvvars>>
exceptRep == <<drvvars, obvars, hbvars, clvars, tmvars, nmvars, wlvars, wtvars, cvvars, vwvars>>

\* The replicated task queue under every sequence of proposals
Next ==
  \/ AppendTask /\ UNCHANGED exceptTQ
  \/ PopTask /\ UNCHANGED exceptTQ
  \/ TransitionTask /\ UNCHANGED exceptTQ
  \/ ClearTaskQueue /\ UNCHANGED exceptTQ
  \/ PreemptTaskQueues /\ UNCHANGED exceptTQ
  \/ ResumeTaskQueues /\ UNCHANGED exceptTQ
  \/ ReassignTasks /\ UNCHANGED exceptTQ

Spec == Init /\ [][Next]_vars

\* Two replicas of the task queue: one applies each transition as it is committed,
\* the other applies the log at its own pace
NextReplicas ==
  \/ \E n \in Nodes, k \in Keys :
       append_task(n, k) /\ Replicate(AppendTaskEntry(n, k)) /\ UNCHANGED exceptRep
  \/ \E n \in Nodes, t \in TaskIds, s \in BOOLEAN :
       pop_task(n, t, s) /\ Replicate(PopTaskEntry(n, t, s)) /\ UNCHANGED exceptRep
  \/ \E t \in TaskIds, st \in RunningStates :
       transition_task(t, st) /\ Replicate(TransitionTaskEntry(t, st)) /\ UNCHANGED exceptRep
  \/ \E k \in Keys :
       clear_task_queue(k) /\ Replicate(ClearTaskQueueEntry(k)) /\ UNCHANGED exceptRep
  \/ \E n \in Nodes, ks \in KeySeqs :
       pause_multiple_task_queues(n, ks) /\ Replicate(PreemptTaskQueuesEntry(n, ks))
         /\ UNCHANGED exceptRep
  \/ \E n \in Nodes, ks \in KeySeqs, s \in BOOLEAN :
       resume_multiple_task_queues(n, ks, s) /\ Replicate(ResumeTaskQueuesEntry(n, ks, s))
         /\ UNCHANGED exceptRep
  \/ \E n \in Nodes, f \in Nodes :
       reassign_tasks(n, f) /\ Replicate(ReassignTasksEntry(n, f)) /\ UNCHANGED exceptRep
  \/ FollowerApply /\ UNCHANGED exceptRep

SpecReplicas == Init /\ [][NextReplicas]_vars

\* The task driver with executor crashes and reassignment
NextFailover ==
  \/ \E n \in Nodes, k \in Keys :
       alive[n] /\ append_task(n, k) /\ UNCHANGED drvvars /\ UNCHANGED exceptDriver
  \/ \E n \in Nodes, t \in TaskIds : DriverStart(n, t) /\ UNCHANGED exceptDriver
  \/ \E n \in Nodes, t \in TaskIds : DriverBroadcast(n, t) /\ UNCHANGED exceptDriver
  \/ \E n \in Nodes, t \in TaskIds : DriverCommit(n, t) /\ UNCHANGED exceptDriver
  \/ \E n \in Nodes, t \in TaskIds : DriverFinish(n, t) /\ UNCHANGED exceptDriver
  \/ \E n \in Nodes : Crash(n) /\ UNCHANGED exceptDriver
  \/ \E n \in Nodes, f \in Nodes : Recover(n, f) /\ UNCHANGED exceptDriver

SpecFailover == Init /\ [][NextFailover]_vars

\* The network order book under every sequence of applicator calls
NextOrderBook ==
  \/ NewOrder /\ UNCHANGED exceptOB
  \/ AddOrderValidityProof /\ UNCHANGED exceptOB
  \/ NullifyOrders /\ UNCHANGED exceptOB

SpecOrderBook == Init /\ [][NextOrderBook]_vars

\* The gossip server's order handlers under every sequence of messages
NextGossipOrders ==
  \/ HandleNewOrder /\ UNCHANGED exceptOB
  \/ HandleNewValidityProof /\ UNCHANGED exceptOB
  \/ HandleOrderInfoResponse /\ UNCHANGED exceptOB

SpecGossipOrders == Init /\ [][NextGossipOrders]_vars

\* The heartbeat workers, the timer and the clock, next to tasks appended by
\* indexed executors
NextHeartbeat ==
  \/ Tick /\ UNCHANGED exceptHB
  \/ \E p \in Peers : record_heartbeat(p) /\ UNCHANGED exceptHB
  \/ \E p \in Peers : enqueue_heartbeat(p) /\ UNCHANGED exceptHB
  \/ \E p \in Peers : send_heartbeat(p) /\ UNCHANGED exceptHB
  \/ maybe_expire_check /\ UNCHANGED exceptHB
  \/ maybe_expire_remove /\ UNCHANGED exceptHB
  \/ maybe_expire_put /\ UNCHANGED exceptHB
  \/ \E incoming \in SUBSET Peers : merge_peer_index_read(1, incoming) /\ UNCHANGED exceptHB
  \/ merge_peer_index_write(1) /\ UNCHANGED exceptHB
  \/ \E n \in Nodes, k \in Keys :
       known_peers[n] # None /\ append_task(n, k) /\ UNCHANGED exceptTQ

SpecHeartbeat == Init /\ [][NextHeartbeat]_vars

\* Two workers merging the peer lists of inbound heartbeats next to the heartbeat
\* worker, the timer and the clock
NextMerge ==
  \/ Tick /\ UNCHANGED exceptHB
  \/ \E p \in Peers : record_heartbeat(p) /\ UNCHANGED exceptHB
  \/ \E p \in Peers : enqueue_heartbeat(p) /\ UNCHANGED exceptHB
  \/ \E p \in Peers : send_heartbeat(p) /\ UNCHANGED exceptHB
  \/ maybe_expire_check /\ UNCHANGED exceptHB
  \/ maybe_expire_remove /\ UNCHANGED exceptHB
  \/ maybe_expire_put /\ UNCHANGED exceptHB
  \/ \E w \in MergeWorkers, incoming \in SUBSET Peers :
       merge_peer_index_read(w, incoming) /\ UNCHANGED exceptHB
  \/ \E w \in MergeWorkers : merge_peer_index_write(w) /\ UNCHANGED exceptHB

SpecMerge == Init /\ [][NextMerge]_vars

\* The wallet merge of inbound heartbeats next to the peer merge, the heartbeat
\* worker, the timer and the clock
NextWallets ==
  \/ Tick /\ UNCHANGED exceptHB
  \/ \E p \in Peers : record_heartbeat(p) /\ UNCHANGED exceptHB
  \/ \E p \in Peers : enqueue_heartbeat(p) /\ UNCHANGED exceptHB
  \/ \E p \in Peers : send_heartbeat(p) /\ UNCHANGED exceptHB
  \/ maybe_expire_check /\ UNCHANGED exceptHB
  \/ maybe_expire_remove /\ UNCHANGED exceptHB
  \/ maybe_expire_put /\ UNCHANGED exceptHB
  \/ \E incoming \in SUBSET Peers : merge_peer_index_read(1, incoming) /\ UNCHANGED exceptHB
  \/ merge_peer_index_write(1) /\ UNCHANGED exceptHB
  \/ \E peer_wallets \in PeerWallets :
       merge_wallets_read(peer_wallets) /\ UNCHANGED <<hbvars, exceptGossip>>
  \/ merge_wallets_write /\ UNCHANGED <<hbvars, exceptGossip>>

SpecWallets == Init /\ [][NextWallets]_vars

\* The cluster merge of inbound heartbeats and the answers to its ClusterAuth
\* requests, next to the heartbeat worker, the timer and the clock
NextCluster ==
  \/ Tick /\ UNCHANGED exceptHB
  \/ \E p \in Peers : record_heartbeat(p) /\ UNCHANGED exceptHB
  \/ \E p \in Peers : enqueue_heartbeat(p) /\ UNCHANGED exceptHB
  \/ \E p \in Peers : send_heartbeat(p) /\ UNCHANGED exceptHB
  \/ maybe_expire_check /\ UNCHANGED exceptHB
  \/ maybe_expire_remove /\ UNCHANGED exceptHB
  \/ maybe_expire_put /\ UNCHANGED exceptHB
  \/ \E known_members \in SUBSET Peers :
       merge_cluster_metadata_read(known_members) /\ UNCHANGED exceptGossip
  \/ merge_cluster_metadata_send /\ UNCHANGED exceptGossip
  \/ \E peer \in Peers, signed_with \in ClusterKeys :
       handle_cluster_auth_response(peer, signed_with) /\ UNCHANGED exceptGossip

SpecCluster == Init /\ [][NextCluster]_vars

\* The cluster management worker handling ClusterJoin messages, next to the
\* heartbeat worker, the timer and the clock
InitJoin == TQInit /\ DrvInit /\ OBInit /\ HBInit /\ RepInit /\ ClInitAnyWallets /\ TimerInit /\ NetInit /\ WalletInit /\ SharesInit /\ ConvInit /\ WitnessInit

NextJoin ==
  \/ Tick /\ UNCHANGED exceptHB
  \/ \E p \in Peers : record_heartbeat(p) /\ UNCHANGED exceptHB
  \/ \E p \in Peers : enqueue_heartbeat(p) /\ UNCHANGED exceptHB
  \/ \E p \in Peers : send_heartbeat(p) /\ UNCHANGED exceptHB
  \/ maybe_expire_check /\ UNCHANGED exceptHB
  \/ maybe_expire_remove /\ UNCHANGED exceptHB
  \/ maybe_expire_put /\ UNCHANGED exceptHB
  \/ \E cluster_id \in Clusters, peer_id \in Peers :
       handle_cluster_join_job(cluster_id, peer_id) /\ UNCHANGED exceptGossip

SpecJoin == InitJoin /\ [][NextJoin]_vars

\* The heartbeat timer's loop and the jobs it enqueues, next to the heartbeat
\* worker, the peer merge and the clock
NextTimer ==
  \/ Tick /\ UNCHANGED exceptHB
  \/ \E p \in Peers : record_heartbeat(p) /\ UNCHANGED exceptHB
  \/ execution_loop /\ UNCHANGED exceptTimer
  \/ \E p \in Peers : execute_heartbeat_job(p) /\ UNCHANGED exceptHB
  \/ \E p \in Peers : send_heartbeat(p) /\ UNCHANGED exceptHB
  \/ maybe_expire_check /\ UNCHANGED exceptHB
  \/ maybe_expire_remove /\ UNCHANGED exceptHB
  \/ maybe_expire_put /\ UNCHANGED exceptHB
  \/ \E incoming \in SUBSET Peers : merge_peer_index_read(1, incoming) /\ UNCHANGED exceptHB
  \/ merge_peer_index_write(1) /\ UNCHANGED exceptHB

SpecTimer == Init /\ [][NextTimer]_vars

\* The network manager handling the workers' outbound messages
NextNetwork ==
  \E msg \in GossipOutbounds, signing \in {"ok", "err"} :
    handle_outbound_message(msg, signing) /\ UNCHANGED network_executor /\ UNCHANGED exceptNetwork

SpecNetwork == Init /\ [][NextNetwork]_vars

\* The applicator's order book handlers under every sequence of proposals, with
\* a storage whose commit can fail
NextApplicator ==
  \/ \E id \in OrderIds, n \in Nullifiers, local \in BOOLEAN, commits \in BOOLEAN :
       new_order_tx(NewNetworkOrder(id, n, local), commits) /\ UNCHANGED exceptOB
  \/ \E id \in OrderIds, proof \in ProofBundles, commits \in BOOLEAN :
       add_order_validity_proof_tx(id, proof, commits) /\ UNCHANGED exceptOB
  \/ \E n \in Nullifiers, commits \in BOOLEAN :
       nullify_orders_tx(n, commits) /\ UNCHANGED exceptOB

SpecApplicator == Init /\ [][NextApplicator]_vars

\* The wallets' staleness counters and refresh tasks next to the task queue's
\* appends, transitions and pops
NextRefresh ==
  \/ \E n \in Nodes, k \in Keys : on_merkle_root_change(n, k) /\ UNCHANGED exceptWallet
  \/ \E n \in Nodes, k \in Keys : append_wallet_refresh_task(n, k) /\ UNCHANGED exceptWallet
  \/ AppendTask /\ UNCHANGED <<exceptTQ>>
  \/ TransitionTask /\ UNCHANGED <<exceptTQ>>
  \/ PopTask /\ UNCHANGED <<exceptTQ>>

SpecRefresh == Init /\ [][NextRefresh]_vars

\* Reblinds of a wallet, from every wallet a creation can leave
InitReblind ==
  TQInit /\ DrvInit /\ OBInit /\ HBInit /\ RepInit /\ ClInit /\ TimerInit /\ NetInit
    /\ WalletInit /\ SharesInitAny /\ ConvInit /\ WitnessInit

NextReblind == ReblindWallet /\ UNCHANGED exceptShares

SpecReblind == InitReblind /\ [][NextReblind]_vars

\* Values of the generated types through to_scalars and from_scalars
InitBaseType ==
  TQInit /\ DrvInit /\ OBInit /\ HBInit /\ RepInit /\ ClInit /\ TimerInit /\ NetInit
    /\ WalletInit /\ SharesInit /\ BaseTypeInit /\ WitnessInit

NextBaseType ==
  \/ Serialize /\ UNCHANGED exceptConv
  \/ Deserialize /\ UNCHANGED exceptConv

SpecBaseType == InitBaseType /\ [][NextBaseType]_vars

\* Integers through NonNativeKey and back
InitNonNativeKey ==
  TQInit /\ DrvInit /\ OBInit /\ HBInit /\ RepInit /\ ClInit /\ TimerInit /\ NetInit
    /\ WalletInit /\ SharesInit /\ NonNativeKeyInit /\ WitnessInit

NextNonNativeKey ==
  \/ NonNativeKeyFromBigUint /\ UNCHANGED exceptConv
  \/ BigUintFromNonNativeKey /\ UNCHANGED exceptConv

SpecNonNativeKey == InitNonNativeKey /\ [][NextNonNativeKey]_vars

\* Requests for validity witnesses from any peer, over any peer index
InitWitness ==
  TQInit /\ DrvInit /\ OBInit /\ HBInit /\ RepInit /\ ClInit /\ TimerInit /\ NetInit
    /\ WalletInit /\ SharesInit /\ ConvInit /\ WitnessInitAny

NextWitness ==
  \E id \in OrderIds, p \in Peers :
    handle_validity_witness_request(id, p) /\ UNCHANGED exceptWitness

SpecWitness == InitWitness /\ [][NextWitness]_vars

\* The executor loop of the network manager under every sequence of jobs,
\* swarm events, bus messages and the cancel signal
ExecutorJobs == {OutboundRequest(2, GossipMessage(t, 1)) : t \in {"Heartbeat", "Replicate"}}

NextExecutor ==
  \/ \E msg \in ExecutorJobs, signing \in {"ok", "err"} :
       executor_loop_job(msg, signing) /\ UNCHANGED exceptNetwork
  \/ \E event \in SwarmEvents, result \in {"Ok", "Err"} :
       executor_loop_swarm_event(event, result) /\ UNCHANGED exceptNetwork
  \/ \E message \in BusMessages, result \in {"Ok", "Err"} :
       executor_loop_wallet_update(message, result) /\ UNCHANGED exceptNetwork
  \/ \E changed \in {"Ok", "Err"} : executor_loop_cancel(changed) /\ UNCHANGED exceptNetwork

SpecExecutor == Init /\ [][NextExecutor]_vars

\* Match results through the serializer and the deserializer
InitMatchResult ==
  TQInit /\ DrvInit /\ OBInit /\ HBInit /\ RepInit /\ ClInit /\ TimerInit /\ NetInit
    /\ WalletInit /\ SharesInit /\ MatchResultInit /\ WitnessInit

NextMatchResult ==
  \/ SerializeMatchResult /\ UNCHANGED exceptConv
  \/ DeserializeMatchResult /\ UNCHANGED exceptConv

SpecMatchResult == InitMatchResult /\ [][NextMatchResult]_vars

\* The default authentication paths of the two chain clients, for every hash
\* and every empty leaf value
InitAuthenticationPath ==
  TQInit /\ DrvInit /\ OBInit /\ HBInit /\ RepInit /\ ClInit /\ TimerInit /\ NetInit
    /\ WalletInit /\ SharesInit /\ AuthenticationPathInit /\ WitnessInit

NextAuthenticationPath ==
  \/ DarkpoolPathInitialized /\ UNCHANGED exceptConv
  \/ StarknetPathInitialized /\ UNCHANGED exceptConv

SpecAuthenticationPath == InitAuthenticationPath /\ [][NextAuthenticationPath]_vars

\* -------------------------------------------------------------- claims

\* C1: in every reachable state each task queue holds at most one Running task,
\* and a Running task is the head of its queue.
C1_RunningOnlyAtHead ==
  \A k \in Keys : \A i \in 1..Len(queues[k]) : IsRunning(queues[k][i]) => i = 1

\* A queue with a Running head and a task waiting behind it
C1_Witness ==
  \E k \in Keys : Len(queues[k]) >= 2 /\ IsRunning(queues[k][1]) /\ queues[k][2].state = Queued

AnyCommitted(keys) == \E i \in 1..Len(keys) : current_committed_task(TQ, keys[i]) # NoTask

\* C2: a PreemptTaskQueues over `keys` changes nothing when a queue of `keys` holds
\* a committed running task, and otherwise leaves every queue of `keys` paused with
\* the preempting task, in state Preemptive, at its front.
C2_PreemptAllOrNothing ==
  [][\A n \in Nodes, keys \in KeySeqs :
       pause_multiple_task_queues(n, keys) =>
         IF AnyCommitted(keys)
         THEN UNCHANGED <<queues, paused, history, assigned>>
         ELSE \A i \in 1..Len(keys) :
                /\ paused'[keys[i]]
                /\ Head(queues'[keys[i]]).id = NewPreemptId
                /\ Head(queues'[keys[i]]).state = Preemptive]_vars

\* Two queues paused by one preemption, one of them with its displaced task behind
C2_Witness ==
  \E j, k \in Keys :
     /\ j # k /\ paused[j] /\ paused[k]
     /\ queues[j] # <<>> /\ queues[k] # <<>>
     /\ Head(queues[j]).id = Head(queues[k]).id
     /\ Head(queues[j]).state = Preemptive
     /\ Len(queues[j]) >= 2

HeadIs(k, tag, c) ==
  queues[k] # <<>> /\ Head(queues[k]).state.tag = tag /\ Head(queues[k]).state.committed = c

\* C3: current_committed_task is none while the running head is uncommitted and the
\* head's id once it is committed; having returned a task it returns that task after
\* every transition that leaves the task in the queue.
C3_CommittedMonotone ==
  /\ [](\A k \in Keys :
          /\ HeadIs(k, "Running", FALSE) => current_committed_task(TQ, k) = NoTask
          /\ HeadIs(k, "Running", TRUE) => current_committed_task(TQ, k) = Head(queues[k]).id)
  /\ [][\A k \in Keys :
          LET t == current_committed_task(TQ, k)
          IN t # NoTask /\ t \in IdsIn(queues'[k]) => current_committed_task(TQ, k)' = t]_vars

\* A committed task that has moved on to a later step
C3_Witness ==
  \E k \in Keys : HeadIs(k, "Running", TRUE) /\ Head(queues[k]).state.step = MaxStep

IsCommittedTask(t) == \E k \in Keys : current_committed_task(TQ, k) = t

InHistory(t, state) ==
  \E k \in Keys : \E i \in 1..Len(history[k]) : history[k][i] = [id |-> t, state |-> state]

Stored(id) == orders[id] # None

\* C5: every stored order's id is a member of the nullifier set keyed by the
\* order's current public_share_nullifier.
C5_OrderIndexedByNullifier ==
  \A id \in OrderIds :
    Stored(id) => Contains(nullifier_sets[Unwrap(orders[id]).public_share_nullifier], id)

\* An order re-indexed by a validity proof whose nullifier differs from the one
\* the order was added with, next to a second order
C5_Witness ==
  \E id \in OrderIds, other \in OrderIds :
    /\ id # other
    /\ Stored(id) /\ Stored(other)
    /\ Unwrap(orders[id]).state = "Verified"
    /\ Unwrap(orders[id]).public_share_nullifier # Unwrap(orders[other]).public_share_nullifier
    /\ nullifier_sets[Unwrap(orders[other]).public_share_nullifier] = <<other>>

\* C6: a nullify_orders(n) step leaves every order in the nullifier set of n Cancelled.
C6_NullifiedOrdersCancelled ==
  [][\A n \in Nullifiers :
       nullify_orders(n) =>
         \A i \in 1..Len(nullifier_sets'[n]) :
           /\ orders'[nullifier_sets'[n][i]] # None
           /\ Unwrap(orders'[nullifier_sets'[n][i]]).state = "Cancelled"]_vars

\* Two orders of one nullifier, one of them Verified before, both cancelled by one
\* nullify_orders, each with its bus message
C6_Witness ==
  /\ Len(bus) = 2 /\ \A i \in 1..2 : bus[i].type = "OrderStateChange"
  /\ \E n \in Nullifiers :
       /\ Len(nullifier_sets[n]) = 2
       /\ \A i \in 1..2 : Unwrap(orders[nullifier_sets[n][i]]).state = "Cancelled"

AllChecksPass(a) ==
  a.link /\ a.nullifier_unused /\ a.merkle_root_valid /\ a.reblind /\ a.commitments

BecomesVerified(id) ==
  /\ orders'[id] # orders[id]
  /\ orders'[id] # None
  /\ Unwrap(orders'[id]).state = "Verified"
  /\ ~Unwrap(orders'[id]).local

\* C7: a handler step that moves an order of another cluster to Verified has a
\* bundle that passed all of the link, nullifier, Merkle root and proof checks.
C7_VerifiedOnlyIfAllChecksPass ==
  [][\A id \in OrderIds, c \in Clusters \ {LocalCluster}, b \in ProofBundles, a \in Answers :
       /\ handle_new_validity_proof(id, c, b, a) /\ BecomesVerified(id) => AllChecksPass(a)
       /\ \A n \in Nullifiers :
            handle_order_info_response(id, n, c, Some(b), a) /\ BecomesVerified(id)
              => AllChecksPass(a)]_vars

InvisibilityWindowSeconds == EXPIRY_INVISIBILITY_WINDOW_MS \div MillisPerSecond

\* C8: a step that puts an expired peer back into the peer index happens only
\* after more than EXPIRY_INVISIBILITY_WINDOW has passed since the peer's expiry.
C8_NoReAddWithinWindow ==
  [][\A p \in Peers :
       known_peers[p] = None /\ known_peers'[p] # None /\ expired[p] # None
         => now - Unwrap(expired[p]) > InvisibilityWindowSeconds]_vars

\* C9: the check of maybe_expire_peer decides for removal exactly when at least
\* HEARTBEAT_FAILURE lies between the peer's last heartbeat and the clock read; the
\* removal takes the peer out of the index and the put records the clock read.
C9_ExpiredIffHeartbeatOverdue ==
  [][/\ hb.pc = "check" /\ hb'.pc # "check" /\ known_peers[hb.peer] # None
        => LET elapsed == hb.now - Unwrap(known_peers[hb.peer])
           IN /\ hb'.pc = "remove" => elapsed >= HeartbeatFailureSeconds
              /\ elapsed >= HeartbeatFailureSeconds => hb'.pc = "remove"
     /\ hb.pc = "remove" /\ hb'.pc # "remove" => known_peers'[hb.peer] = None
     /\ hb.pc = "put" /\ hb'.pc # "put"
        => LruFind(expiry_cache', hb.peer) = Some(hb.now)]_vars

\* C10: when the expiry of a peer is complete, no queue's running task has the
\* expired peer as its executor.
C10_ExpiryReassignsTasks ==
  [][hb.pc = "put" /\ hb'.pc = "idle"
       => \A k \in Keys :
            queues'[k] # <<>> /\ IsRunning(Head(queues'[k]))
              => assigned'[Head(queues'[k]).id] # hb.peer]_vars


\* The truncation lengths a caller of get_task_history passes
HistoryLens == 0..(MaxTasks + MaxPreempts + 1)

C12_AppendAtTail ==
  \A n \in Nodes, k \in Keys :
    nextId <= MaxTasks =>
      LET r == ApplyTransition(TQ, AppendTaskEntry(n, k))
          old == queues[k]
          new == r.st.queues[k]
      IN /\ r.ok
         /\ Len(new) = Len(old) + 1
         /\ new[Len(new)].id = nextId
         /\ IF old = <<>> /\ ~paused[k]
            THEN /\ new[1].state = Running(0, FALSE)
                 /\ r.st.assigned[nextId] = n
            ELSE /\ new[Len(new)].state = Queued
                 /\ r.st.assigned[nextId] = NoPeer
                 /\ SubSeq(new, 1, Len(old)) = old

\* One task appended to an idle queue and started by its proposer, and a second
\* appended behind it
C12_Witness ==
  \E k \in Keys :
    /\ Len(queues[k]) = 2
    /\ queues[k][1].id = 1 /\ queues[k][1].state = Running(0, FALSE)
    /\ assigned[1] # NoPeer
    /\ queues[k][2].id = 2 /\ queues[k][2].state = Queued


\* The queue a PopTask of `t` pops: the first one `t` heads
PopsFrom(t, k) ==
  /\ IsHeadOf(t, k)
  /\ \A j \in Keys : j < k => ~IsHeadOf(t, j)

\* C13: in every state, PopTask{task_id, success} on the head of a queue removes it
\* from the queue, puts it first in the queue's history as Completed when success is
\* true and as Failed otherwise, and, when the queue is not paused and a task
\* remains, leaves that task the Running head, the tasks behind it as they were.
C13_PopRecordsOutcome ==
  \A n \in Nodes, t \in TaskIds, s \in BOOLEAN, k \in Keys :
    PopsFrom(t, k) =>
      LET r == ApplyTransition(TQ, PopTaskEntry(n, t, s))
          old == queues[k]
          new == r.st.queues[k]
      IN /\ r.ok
         /\ Len(new) = Len(old) - 1
         /\ r.st.history[k] =
              <<[id |-> t, state |-> IF s THEN Completed ELSE Failed]>> \o history[k]
         /\ Len(old) > 1 =>
              /\ Tail(new) = Tail(Tail(old))
              /\ Head(new).id = old[2].id
              /\ ~paused[k] => IsRunning(Head(new))

\* A failed first task in the history of a queue whose second task was promoted
C13_Witness ==
  \E k \in Keys :
    /\ history[k] = <<[id |-> 1, state |-> Failed]>>
    /\ queues[k] # <<>>
    /\ Head(queues[k]).id = 2
    /\ IsRunning(Head(queues[k]))


HeadedBy(t) == {k \in Keys : IsHeadOf(t, k)}

\* What a TransitionTask{t, st} that is applied leaves behind: `st` on the head of
\* every queue `t` heads, and nothing else touched
TransitionApplied(r, t, st) ==
  /\ r.ok
  /\ \A k \in HeadedBy(t) :
       /\ Head(r.st.queues[k]) = [Head(queues[k]) EXCEPT !.state = st]
       /\ Tail(r.st.queues[k]) = Tail(queues[k])
  /\ \A k \in Keys \ HeadedBy(t) : r.st.queues[k] = queues[k]
  /\ r.st.paused = paused /\ r.st.history = history /\ r.st.assigned = assigned

TransitionRejected(r) == ~r.ok /\ r.st = TQ

RECURSIVE IdSeq(_)
IdSeq(q) == IF q = <<>> THEN <<>> ELSE <<Head(q).id>> \o IdSeq(Tail(q))

\* The queue was paused by a PreemptTaskQueues whose task still heads it
PausedByPreemption(k) ==
  /\ paused[k]
  /\ queues[k] # <<>>
  /\ Head(queues[k]).id \in PreemptIds

\* C15: in every state, a PreemptTaskQueues that is applied puts the preempting task
\* in front of the tasks of each queue and leaves their order alone, and a
\* ResumeTaskQueues{keys, success} over queues a preemption paused leaves every
\* queue of `keys` unpaused, without the preempting task, and with the tasks it held
\* behind the preempting task in the order they had.
C15_ResumeRestoresQueues ==
  /\ \A n \in Nodes, keys \in KeySeqs :
       FreePreemptIds # {} =>
         LET r == ApplyTransition(TQ, PreemptTaskQueuesEntry(n, keys))
         IN r.ok => \A i \in 1..Len(keys) :
                      IdSeq(r.st.queues[keys[i]]) = <<NewPreemptId>> \o IdSeq(queues[keys[i]])
  /\ \A n \in Nodes, keys \in KeySeqs, s \in BOOLEAN :
       (\A i \in 1..Len(keys) : PausedByPreemption(keys[i])) =>
         LET r == ApplyTransition(TQ, ResumeTaskQueuesEntry(n, keys, s))
         IN /\ r.ok
            /\ \A i \in 1..Len(keys) :
                 LET k == keys[i]
                 IN /\ ~r.st.paused[k]
                    /\ Head(queues[k]).id \notin IdsIn(r.st.queues[k])
                    /\ IdSeq(r.st.queues[k]) = IdSeq(Tail(queues[k]))

\* Both queues paused by one preemption, the first with two displaced tasks behind
\* the preempting task; resuming both leaves the first unpaused with its two tasks
\* in the order they were appended, the first of them running again
C15_Witness ==
  \E k, j \in Keys, n \in Nodes :
    /\ j # k
    /\ PausedByPreemption(k) /\ PausedByPreemption(j)
    /\ Head(queues[k]).id = Head(queues[j]).id
    /\ IdSeq(Tail(queues[k])) = <<1, 2>>
    /\ LET r == ApplyTransition(TQ, ResumeTaskQueuesEntry(n, <<k, j>>, TRUE))
       IN /\ ~r.st.paused[k] /\ ~r.st.paused[j]
          /\ IdSeq(r.st.queues[k]) = <<1, 2>>
          /\ r.st.queues[k][1].state = Running(0, FALSE)
          /\ r.st.queues[k][2].state = Queued
          /\ r.st.queues[j] = <<>>


\* C16: in every state, ReassignTasks{from, to} is applied and changes executors
\* only: every task `from` executed is executed by `to`, every other task keeps its
\* executor, and the queues (each task's state and committed flag, the order of the
\* tasks), the paused flags and the histories are as they were.
C16_ReassignOnlyExecutors ==
  \A n \in Nodes, f \in Nodes :
    LET e == ReassignTasksEntry(n, f)
        r == ApplyTransition(TQ, e)
    IN /\ r.ok
       /\ r.st.queues = queues
       /\ r.st.paused = paused
       /\ r.st.history = history
       /\ \A t \in TaskIds :
            r.st.assigned[t] = IF assigned[t] = e.from THEN e.to ELSE assigned[t]

\* Two queues whose running heads are executed by different nodes, one of them
\* committed; reassigning the first node's tasks moves that head alone
C16_Witness ==
  \E j, k \in Keys, from, to \in Nodes :
    /\ j # k /\ from # to
    /\ HeadIs(j, "Running", TRUE) /\ HeadIs(k, "Running", FALSE)
    /\ assigned[Head(queues[j]).id] = from
    /\ assigned[Head(queues[k]).id] = to
    /\ LET r == ApplyTransition(TQ, ReassignTasksEntry(to, from))
       IN /\ r.st.assigned[Head(queues[j]).id] = to
          /\ r.st.assigned[Head(queues[k]).id] = to
          /\ r.st.queues = queues


\* The entries of a get_task_history answer that come from the queue
FromQueue(S, key, d) == FilterMapQueued(key, get_queued_tasks(S, key), d)

\* C17: in every state, for every length, key and set of describable tasks,
\* get_task_history answers at most len entries: first entries of the tasks in the
\* queue, in queue order and with their current states, then the newest entries of
\* the stored history, which number at most len minus the number of queued tasks.
C17_HistoryQueuedFirst ==
  \A len \in HistoryLens, key \in Keys, d \in DescribableSets :
    LET h == get_task_history(TQ, len, key, d)
        fromq == FromQueue(TQ, key, d)
        nq == IF Len(fromq) <= len THEN Len(fromq) ELSE len
        room == saturating_sub(len, Len(queues[key]))
    IN /\ Len(h) <= len
       /\ SubSeq(h, 1, nq) = SubSeq(fromq, 1, nq)
       /\ Len(h) - nq <= room
       /\ \A i \in 1..(Len(h) - nq) : h[nq + i] = history[key][i]
       /\ Len(h) - nq < room => Len(h) - nq = Len(history[key])
       /\ d = TaskIds =>
            /\ fromq = [i \in 1..Len(queues[key]) |->
                          [id |-> queues[key][i].id, state |-> queues[key][i].state]]
            /\ Len(h) = IF Len(queues[key]) + Len(history[key]) <= len
                        THEN Len(queues[key]) + Len(history[key]) ELSE len

\* A queue with a running head and a queued task behind it next to a history of
\* one popped task: a length of three returns the three, a length of two the queue
C17_Witness ==
  \E k \in Keys :
    /\ Len(queues[k]) = 2 /\ IsRunning(Head(queues[k])) /\ queues[k][2].state = Queued
    /\ Len(history[k]) = 1
    /\ Len(get_task_history(TQ, 3, k, TaskIds)) = 3
    /\ get_task_history(TQ, 3, k, TaskIds)[3] = history[k][1]
    /\ get_task_history(TQ, 2, k, TaskIds)[2].id = queues[k][2].id


\* C18: a nullify_orders(n) step leaves every order that is not in the nullifier set
\* of n as it was: state, validity proofs, witnesses, nullifier and every other field.
C18_NullifyLeavesOthers ==
  [][\A n \in Nullifiers :
       nullify_orders(n) =>
         \A id \in OrderIds :
           ~Contains(nullifier_sets[n], id) => orders'[id] = orders[id]]_vars

\* The last operation cancelled one order, and an order verified under another
\* nullifier still holds its proof
C18_Witness ==
  \E id \in OrderIds, other \in OrderIds :
    /\ id # other
    /\ Stored(id) /\ Stored(other)
    /\ bus = <<OrderStateChangeMsg(Unwrap(orders[id]))>>
    /\ Unwrap(orders[id]).state = "Cancelled"
    /\ Unwrap(orders[other]).state = "Verified"
    /\ Unwrap(orders[other]).validity_proofs # None
    /\ ~Contains(nullifier_sets[Unwrap(orders[id]).public_share_nullifier], other)


\* C19: an add_order_validity_proof step on an order that is in the order book
\* leaves the order Verified, holding the proof bundle, carrying the proof's
\* original_shares_nullifier and indexed under that nullifier and no other.
C19_ProofVerifiesAndIndexes ==
  [][\A id \in OrderIds, proof \in ProofBundles :
       (Stored(id) /\ add_order_validity_proof(id, proof)) =>
         /\ Stored(id)'
         /\ Unwrap(orders'[id]).state = "Verified"
         /\ Unwrap(orders'[id]).validity_proofs = Some(proof)
         /\ Unwrap(orders'[id]).public_share_nullifier = proof.original_shares_nullifier
         /\ \A n \in Nullifiers :
              Contains(nullifier_sets'[n], id) <=> n = proof.original_shares_nullifier]_vars

\* The last operation attached a proof to an order, which is Verified, holds the
\* proof and is indexed under the proof's nullifier, next to an order still
\* Received under another nullifier
C19_Witness ==
  \E id \in OrderIds, n \in Nullifiers :
    /\ Stored(id)
    /\ bus = <<OrderStateChangeMsg(Unwrap(orders[id]))>>
    /\ Unwrap(orders[id]).state = "Verified"
    /\ Unwrap(orders[id]).validity_proofs = Some(ProofBundle(n))
    /\ Contains(nullifier_sets[n], id)
    /\ \E other \in OrderIds \ {id}, m \in Nullifiers \ {n} :
         nullifier_sets[m] = <<other>> /\ Stored(other) /\ Unwrap(orders[other]).state = "Received"


\* C20: a handle_new_order step whose nullifier check answers spent changes nothing
\* in the order book; one whose check answers unused leaves the order in the book
\* in state Received, without proofs, under the event's nullifier.
C20_SpentNullifierSkipsOrder ==
  [][\A id \in OrderIds, n \in Nullifiers, c \in Clusters, unused \in BOOLEAN :
       handle_new_order(id, n, c, unused) =>
         IF unused
         THEN /\ orders'[id] = Some(NewNetworkOrder(id, n, c = LocalCluster))
              /\ Unwrap(orders'[id]).state = "Received"
              /\ Contains(nullifier_sets'[n], id)
         ELSE UNCHANGED <<orders, nullifier_sets, priorities>>]_vars

\* A remote order in the book in state Received under its nullifier, the other
\* order id absent
C20_Witness ==
  \E id \in OrderIds, n \in Nullifiers :
    /\ orders[id] = Some(NewNetworkOrder(id, n, FALSE))
    /\ nullifier_sets[n] = <<id>>
    /\ \A other \in OrderIds \ {id} : ~Stored(other)


\* The peer is in the expiry cache and its invisibility window has not elapsed
InInvisibilityWindow(p) ==
  /\ LruFind(expiry_cache, p) # None
  /\ WindowOpen(now, Unwrap(LruFind(expiry_cache, p)))

Listed(peers_to_add) == {peers_to_add[i] : i \in 1..Len(peers_to_add)}

MessageReplicas(peer_wallets, wallet) ==
  IF peer_wallets[wallet] = None THEN {} ELSE Unwrap(peer_wallets[wallet])

\* C22: the write phase of merge_wallets leaves every wallet the node manages
\* with its previous replicas united with the message's replicas that are in
\* the peer index, adds no wallet the node does not manage and removes no
\* replica; the read phase changes no wallet.
C22_MergeWalletsUnion ==
  [][/\ (mw.pc = "idle" /\ mw'.pc = "write") => managed_wallets' = managed_wallets
     /\ (mw.pc = "write" /\ mw'.pc = "idle") =>
          \A wallet \in WalletIds :
            IF managed_wallets[wallet] = None
            THEN managed_wallets'[wallet] = None
            ELSE /\ managed_wallets'[wallet] # None
                 /\ Unwrap(managed_wallets'[wallet]) =
                      Unwrap(managed_wallets[wallet])
                        \cup {replica \in MessageReplicas(mw.peer_wallets, wallet) :
                                known_peers[replica] # None}
                 /\ Unwrap(managed_wallets[wallet]) \subseteq Unwrap(managed_wallets'[wallet])]_vars

\* A merge gave wallet 1 a replica from a message, left wallet 2 alone and did
\* not take up the wallet the node does not manage although messages list it
C22_Witness ==
  /\ mw.pc = "idle"
  /\ managed_wallets[1] = Some(Peers)
  /\ managed_wallets[2] = Some({LocalPeer})
  /\ managed_wallets[MaxWallets + 1] = None

C24_JoinSendsOneReplicate ==
  [][\A peer_id \in Peers :
       handle_cluster_join_job(LocalCluster, peer_id) =>
         /\ known_peers'[peer_id] # None
         /\ network_channel' =
              IF get_all_wallets = {} THEN <<>>
              ELSE <<ReplicateRequest(peer_id, get_all_wallets)>>]_vars

\* What the handler does: the peer is indexed, and a node that holds wallets
\* sends the Replicate request twice, once from add_peer_to_cluster and once
\* from the handler itself
C24_JoinSendsReplicateTwice ==
  [][\A peer_id \in Peers :
       handle_cluster_join_job(LocalCluster, peer_id) =>
         /\ known_peers'[peer_id] # None
         /\ network_channel' =
              IF get_all_wallets = {} THEN <<>>
              ELSE <<ReplicateRequest(peer_id, get_all_wallets), ReplicateRequest(peer_id, get_all_wallets)>>]_vars

\* A ClusterJoin was handled by a node holding wallets
C24_Witness ==
  \E peer_id \in Peers \ {LocalPeer} :
    /\ known_peers[peer_id] # None
    /\ Len(network_channel) = 2
    /\ network_channel[1] = ReplicateRequest(peer_id, ManagedWalletIds)
    /\ network_channel[2] = ReplicateRequest(peer_id, ManagedWalletIds)

\* C25: when a pass of the timer's loop through the index ends and the set of
\* known peers was the same at every iteration of the pass, the pass enqueued
\* exactly one ExecuteHeartbeat job for each known peer other than the local
\* peer and none for any other, and slept one HEARTBEAT_INTERVAL, short of it
\* by less than one nanosecond per peer.
C25_OneJobPerPeerPerInterval ==
  (timer.pass.wrapped /\ timer.pass.steady /\ timer.pc = "run") =>
    /\ \A p \in Peers :
         timer.pass.enqueued[p] =
           IF p \in timer.pass.cycle_peers /\ p # LocalPeer THEN 1 ELSE 0
    /\ DurationLe(timer.pass.slept, wait_period)
    /\ DurationLe(wait_period,
                  DurationAdd(timer.pass.slept,
                              Duration(0, Cardinality(timer.pass.cycle_peers))))

\* A pass over an unchanged index of two peers ended: one job for the remote
\* peer, two sleeps of half the interval
C25_Witness ==
  /\ timer.pass.wrapped /\ timer.pass.steady
  /\ timer.pass.cycle_peers = Peers
  /\ timer.pass.enqueued = [p \in Peers |-> IF p = LocalPeer THEN 0 ELSE 1]
  /\ timer.pass.slept = wait_period

\* C26: send_heartbeat for the local peer sends no message, starts no expiry
\* check and changes neither the peer index nor the expiry cache; the timer
\* enqueues no job for the local peer.
C26_NoHeartbeatToSelf ==
  [][/\ send_heartbeat(LocalPeer) =>
          /\ network_channel' = network_channel
          /\ hb' = hb
          /\ known_peers' = known_peers
          /\ expiry_cache' = expiry_cache
          /\ expired' = expired
     /\ execution_loop => LocalPeer \notin jobs' \ jobs]_vars

\* An idle worker is about to take a job for the local peer after a heartbeat
\* went out to another peer, and the timer has finished a pass over an index
\* holding the local peer
C26_Witness ==
  /\ LocalPeer \in jobs
  /\ hb.pc = "idle"
  /\ \E p \in Peers \ {LocalPeer} : network_channel = <<HeartbeatRequest(p)>>
  /\ timer.pass.wrapped /\ LocalPeer \in timer.pass.cycle_peers
  /\ timer.pass.enqueued[LocalPeer] = 0

\* C27: every request or response the network manager hands to the swarm
\* carries a signature that verifies under the cluster key exactly when its
\* type is cluster-scoped; one of another type carries no signature.
C27_SignedIffClusterScoped ==
  \A i \in 1..Len(swarm) :
    swarm[i].kind \in {"Request", "Response"} =>
      LET envelope == swarm[i].envelope
      IN /\ Verifies(envelope.sig, ClusterPublicKey, envelope.body)
              <=> envelope.body.type \in ClusterScopedTypes
         /\ envelope.body.type \notin ClusterScopedTypes => envelope.sig = None

\* A signed Replicate request and an unsigned Heartbeat response have gone out
C27_Witness ==
  /\ Len(swarm) = 2
  /\ swarm[1].kind = "Request" /\ swarm[1].envelope.body.type = "Replicate"
  /\ swarm[1].envelope.sig # None
  /\ swarm[2].kind = "Response" /\ swarm[2].envelope.body.type = "Heartbeat"
  /\ swarm[2].envelope.sig = None

\* C28: every message on the bus tells of a change that a committed write
\* transaction made: the order it carries is the order the table holds; a
\* handler whose transaction did not commit has published nothing.
C28_PublishedOnlyCommitted ==
  \A i \in 1..Len(bus) :
    read_order_info(DB, bus[i].order.id) = Some(bus[i].order)

\* A handler's transaction did not commit and the bus tells of its change
C28_Witness ==
  \E i \in 1..Len(bus) :
    /\ bus[i].type = "OrderStateChange" /\ bus[i].order.state = "Cancelled"
    /\ read_order_info(DB, bus[i].order.id) # None
    /\ read_order_info_unchecked(DB, bus[i].order.id).state # "Cancelled"

\* The RefreshWallet tasks of a wallet, queued or in its history
RefreshTasksOf(wallet_id) ==
  {t \in refresh_tasks :
     \/ \E i \in 1..Len(queues[wallet_id]) : queues[wallet_id][i].id = t
     \/ \E i \in 1..Len(history[wallet_id]) : history[wallet_id][i].id = t}

\* C29: there is a staleness threshold such that every wallet whose
\* proof_staleness has reached it is reported as needing new commitment proofs
\* and has had a RefreshWallet task appended to its queue.
C29_StaleWalletGetsRefresh ==
  \E threshold \in 1..MaxStaleness :
    \A wallet_id \in Keys :
      proof_staleness[wallet_id] >= threshold =>
        /\ needs_new_commitment_proof(Wallet(proof_staleness[wallet_id]))
        /\ RefreshTasksOf(wallet_id) # {}

\* A wallet's counter stands at its bound, no refresh task was ever appended
\* for it, and another wallet got one by a direct call
C29_Witness ==
  \E wallet_id \in Keys, other \in Keys :
    /\ proof_staleness[wallet_id] = MaxStaleness
    /\ ~needs_new_commitment_proof(Wallet(proof_staleness[wallet_id]))
    /\ RefreshTasksOf(wallet_id) = {}
    /\ RefreshTasksOf(other) # {}

\* The plaintext the shares of a wallet stand for: the sum of the two share
\* vectors, unblinded with the wallet's blinder
RecoveredScalars(w) ==
  unblind_shares(add_shares(w.private_shares, w.blinded_public_shares), w.blinder)

\* C30: the shares reblind_wallet leaves, added element-wise and unblinded with
\* the new blinder, are the scalars of the plaintext the wallet had before the
\* reblind, balances, orders, fees and keys, with the new blinder last.
C30_ReblindKeepsPlaintext ==
  LET after == reblind_wallet(wallet_state)
  IN /\ RecoveredScalars(after) = WalletScalars(wallet_state.plaintext, after.blinder)
     /\ after.plaintext = wallet_state.plaintext

\* A wallet that has been reblinded, its blinder and private shares out of the
\* hash chains, and whose next reblind changes the blinder and the private shares
C30_Witness ==
  /\ wallet_state.private_shares[N_SHARES] \in {compute_hash(compute_hash(x)) : x \in Scalars}
  /\ wallet_state.blinder \in {compute_hash(x) : x \in Scalars}
  /\ wallet_state.blinder # 0
  /\ wallet_state.plaintext = Plaintext(1, 2, 0, 1)
  /\ reblind_wallet(wallet_state).blinder # wallet_state.blinder
  /\ reblind_wallet(wallet_state).private_shares # wallet_state.private_shares

\* The number of scalars a type's fields take, in declaration order
RECURSIVE ScalarCount(_)
RECURSIVE ScalarCountFrom(_, _)
ScalarCountFrom(fields, i) ==
  IF i > Len(fields) THEN 0 ELSE ScalarCount(fields[i]) + ScalarCountFrom(fields, i + 1)
ScalarCount(type) ==
  IF type.kind = "struct" THEN ScalarCountFrom(type.fields, 1) ELSE 1

FitsKeyWords(val) == Len(val) <= SCALAR_MAX_BYTES * ROOT_KEY_WORDS

\* C32: for every n below 2^(SCALAR_MAX_BYTES * KEY_WORDS * 8), combining the
\* words of split_biguint_into_words(n) with combine_words_into_biguint returns n.
C32_CombineSplit ==
  (conv.kind = "NonNativeKey" /\ conv.stage = "biguint" /\ FitsKeyWords(conv.x)) =>
    /\ Len(conv.key_words) = ROOT_KEY_WORDS
    /\ conv.combined = conv.x

\* The largest integer of the range went through both words and came back
C32_Witness ==
  /\ conv.kind = "NonNativeKey" /\ conv.stage = "biguint"
  /\ conv.x = [i \in 1..(SCALAR_MAX_BYTES * ROOT_KEY_WORDS) |-> 255]
  /\ conv.key_words[2] # ScalarZero
  /\ conv.combined = conv.x

\* C33: once an order's state is Cancelled, no new_order, add_order_validity_proof
\* or nullify_orders step moves it back to Received or Verified.
C33_CancelledIsFinal ==
  [][\A id \in OrderIds :
       (orders[id] # None /\ Unwrap(orders[id]).state = "Cancelled") =>
         (orders'[id] # None /\ Unwrap(orders'[id]).state \notin {"Received", "Verified"})]_vars

\* A proof bundle attached to a cancelled order leaves it Verified
C33_CancelledThenVerified ==
  [][~ \E id \in OrderIds :
         /\ orders[id] # None /\ Unwrap(orders[id]).state = "Cancelled"
         /\ \E proof \in ProofBundles : add_order_validity_proof(id, proof)
         /\ Unwrap(orders'[id]).state = "Verified"]_vars

\* new_order with the id of a cancelled order leaves it Received
C33_CancelledThenReceived ==
  [][~ \E id \in OrderIds :
         /\ orders[id] # None /\ Unwrap(orders[id]).state = "Cancelled"
         /\ \E n \in Nullifiers, local \in BOOLEAN : new_order(NewNetworkOrder(id, n, local))
         /\ Unwrap(orders'[id]).state = "Received"]_vars

\* C34: a heartbeat job for a peer that has left the peer index completes
\* without failure: whenever maybe_expire_peer is about to look the recipient
\* up, the recipient's entry is in the index, and the worker never panics on
\* the lookup.
C34_ExpiryCheckFindsPeer ==
  /\ hb.pc = "check" => known_peers[hb.peer] # None
  /\ ~(hb.pc = "panicked" /\ known_peers[hb.peer] = None)

\* The worker never panics on a peer that an earlier job has expired
C34_NoPanicOnExpiredPeer ==
  ~(/\ hb.pc = "panicked"
    /\ known_peers[hb.peer] = None
    /\ expired[hb.peer] # None)

\* The pass has made exactly one iteration, over the index it began with
FirstIterationDone ==
  /\ timer.pass.steady
  /\ \/ timer.peer_index = 1
     \/ timer.pass.wrapped /\ Cardinality(timer.pass.cycle_peers) = 1

C36_WitnessOnlyToClusterPeers ==
  /\ \A i \in 1..Len(witness_exchange.sent) :
       LET msg == witness_exchange.sent[i]
       IN /\ witness_exchange.peer_info[msg.peer_id] = Some(LocalCluster)
          /\ witness_exchange.order_book[msg.order_id] = Some(Some(msg.witness))
  /\ witness_exchange.last.result = "MissingState" =>
       witness_exchange.peer_info[witness_exchange.last.peer] = None

\* A peer of the cluster got a witness, and the request handled last, from a
\* peer of another cluster for an order with a stored witness, sent nothing
C36_Witness ==
  /\ Len(witness_exchange.sent) = 1
  /\ witness_exchange.peer_info[witness_exchange.sent[1].peer_id] = Some(LocalCluster)
  /\ witness_exchange.last.peer # NoPeer
  /\ witness_exchange.last.peer # witness_exchange.sent[1].peer_id
  /\ witness_exchange.peer_info[witness_exchange.last.peer] = Some("remote")
  /\ witness_exchange.order_book[witness_exchange.last.order] # None
  /\ witness_exchange.order_book[witness_exchange.last.order] # Some(None)

\* The event handled last
LastEvent == network_executor.events[Len(network_executor.events)]

\* C37: the executor loop is still running after every job, swarm event and
\* wallet update, also after one whose handler returned an error; it has
\* returned only through the cancel branch, and then with the Cancelled error.
C37_LoopSurvivesHandlerErrors ==
  /\ network_executor.pc \in {"loop", "returned"}
  /\ network_executor.pc = "returned" <=>
       (network_executor.events # <<>> /\ LastEvent.kind = "cancel")
  /\ network_executor.pc = "returned" => network_executor.returned = Some("Cancelled")
  /\ \A i \in 1..Len(network_executor.events) :
       network_executor.events[i].kind = "cancel" => i = Len(network_executor.events)

\* A job whose signing failed was followed by a wallet update that was handled
\* and then by the cancel signal
C37_Witness ==
  /\ network_executor.pc = "returned"
  /\ Len(network_executor.events) = 3
  /\ network_executor.events[1] = HandledEvent("job", "Err")
  /\ network_executor.events[2] = HandledEvent("InternalWalletUpdate", "Ok")
  /\ network_executor.events[3].kind = "cancel"
  /\ swarm = <<>>

\* C39: the two scalar conversions of the MPC match result disagree on field
\* order: the serializer writes quote_mint, base_mint, quote_amount,
\* base_amount, direction, the deserializer reads position 1 as quote_amount and
\* position 2 as base_mint, so a serialized result read back has base_mint and
\* quote_amount exchanged and every other field as it was.
C39_RoundTripExchangesFields ==
  conv.kind = "MatchResult" =>
    /\ conv.stage \in {"vec", "read"} =>
         conv.serialized = <<conv.x.quote_mint, conv.x.base_mint, conv.x.quote_amount,
                             conv.x.base_amount, conv.x.direction>>
    /\ conv.stage = "read" =>
         /\ conv.deserialized.ok
         /\ conv.deserialized.val.quote_amount = conv.serialized[2]
         /\ conv.deserialized.val.base_mint = conv.serialized[3]
         /\ conv.deserialized.val =
              AuthenticatedMatchResult(conv.x.quote_mint, conv.x.quote_amount,
                                       conv.x.base_mint, conv.x.base_amount, conv.x.direction)
         /\ (conv.deserialized.val = conv.x) <=> (conv.x.base_mint = conv.x.quote_amount)

\* A match result with base mint 1 and quote amount 2 was read back with base
\* mint 2 and quote amount 1
C39_Witness ==
  /\ conv.kind = "MatchResult" /\ conv.stage = "read"
  /\ conv.x.base_mint = 1 /\ conv.x.quote_amount = 2
  /\ conv.deserialized.val.base_mint = 2 /\ conv.deserialized.val.quote_amount = 1
  /\ conv.deserialized.val # conv.x

\* Each element after the first is the hash of the element before it paired
\* with itself
IsHashChain(path) ==
  \A i \in 2..Len(path) : path[i] = conv.poseidon[path[i - 1]]

\* C40: DEFAULT_AUTHENTICATION_PATH is the chain of recursive hashes of the
\* empty leaf value, each element after the first being the hash of the
\* previous element paired with itself, in the darkpool-client and in the
\* starknet-client definition.
C40_PathsAreHashChains ==
  conv.kind = "AuthenticationPath" =>
    /\ IsHashChain(conv.darkpool)
    /\ IsHashChain(conv.starknet)

\* The darkpool-client path starts at the empty leaf value and is a hash chain
C40_DarkpoolPathIsHashChain ==
  (conv.kind = "AuthenticationPath" /\ conv.darkpool # <<>>) =>
    /\ Len(conv.darkpool) = MERKLE_HEIGHT
    /\ conv.darkpool[1] = conv.empty_leaf
    /\ IsHashChain(conv.darkpool)

\* Every element of the starknet-client path is the hash of the empty leaf
\* value paired with itself
C40_StarknetPathIsConstant ==
  (conv.kind = "AuthenticationPath" /\ conv.starknet # <<>>) =>
    \A i \in 1..MERKLE_HEIGHT : conv.starknet[i] = conv.poseidon[conv.empty_leaf]

====
